---------------------------- MODULE Spec2Model ----------------------------
(***************************************************************************)
(* FOOM: the reward and savings calculators (services/rewardsEngine.ts,    *)
(* services/savingsSim.ts) as TLA+ operators, and a caller that invokes    *)
(* them while the wall clock advances (Spec); the wallet store             *)
(* (store/walletStore.ts) under a user who performs its operations one     *)
(* after the other (WalletSpec); and the rewards history of                *)
(* services/storage.ts under calls of addReward whose awaited storage      *)
(* accesses interleave (StorageSpec).                                      *)
(*                                                                         *)
(* Numbers.  A JavaScript number is modelled as a record [n, d]: the exact *)
(* rational n/d in lowest terms with d > 0, or, with d = 0, one of the     *)
(* IEEE-754 special values: NaN (n = 0), +Infinity (n = 1), -Infinity      *)
(* (n = -1).  Arithmetic follows IEEE-754 on the special values (x/0,      *)
(* 0/0, Infinity - Infinity, comparisons with NaN); on finite values it is *)
(* exact.  calculateOptimalAllocation, whose token counts are the floor of *)
(* a quotient by 0.1, is computed in IEEE-754 binary64 instead, bit for    *)
(* bit (round to nearest even): there a double is a record [s, m, e].      *)
(* Its inputs are finite and its goals have a targetAmount other than 0,   *)
(* so that no NaN, infinity or subnormal arises on that path.  The numbers *)
(* of the wallet store are doubles of the same kind.                       *)
(*                                                                         *)
(* Time.  Timestamps and durations are counted in seconds, that is in      *)
(* units of CONSTANTS.TIME.SECOND milliseconds: HOUR and DAY below are the *)
(* source's HOUR and DAY in that unit.                                     *)
(***************************************************************************)
EXTENDS Integers, Sequences, FiniteSets, TLC

---------------------------------------------------------------------------
(* JavaScript numbers *)

Abs(i) == IF i < 0 THEN -i ELSE i

RECURSIVE GCD(_, _)
GCD(a, b) == IF b = 0 THEN a ELSE GCD(b, a % b)

NaN == [n |-> 0, d |-> 0]

PosInf == [n |-> 1, d |-> 0]

NegInf == [n |-> -1, d |-> 0]

\* The finite number p/q (q # 0) in lowest terms.
Rat(p, q) ==
  LET g == GCD(Abs(p), Abs(q))
      s == IF q < 0 THEN -1 ELSE 1
  IN  [n |-> (s * p) \div g, d |-> (s * q) \div g]

\* The integer i as a number.
N(i) == [n |-> i, d |-> 1]

IsNaN(x) == x.d = 0 /\ x.n = 0

IsFinite(x) == x.d # 0

Sgn(x) == IF x.n > 0 THEN 1 ELSE IF x.n < 0 THEN -1 ELSE 0

Inf(s) == IF s > 0 THEN PosInf ELSE NegInf

Neg(x) == [n |-> -x.n, d |-> x.d]

\* x + y
Add(x, y) ==
  IF IsNaN(x) \/ IsNaN(y) THEN NaN
  ELSE IF ~IsFinite(x) /\ ~IsFinite(y) THEN (IF x.n = y.n THEN x ELSE NaN)
  ELSE IF ~IsFinite(x) THEN x
  ELSE IF ~IsFinite(y) THEN y
  ELSE Rat(x.n * y.d + y.n * x.d, x.d * y.d)

\* x - y
Sub(x, y) == Add(x, Neg(y))

\* x * y
Mul(x, y) ==
  IF IsNaN(x) \/ IsNaN(y) THEN NaN
  ELSE IF ~IsFinite(x) \/ ~IsFinite(y)
       THEN (IF Sgn(x) * Sgn(y) = 0 THEN NaN ELSE Inf(Sgn(x) * Sgn(y)))
  ELSE Rat(x.n * y.n, x.d * y.d)

\* x / y
Div(x, y) ==
  IF IsNaN(x) \/ IsNaN(y) THEN NaN
  ELSE IF ~IsFinite(x) /\ ~IsFinite(y) THEN NaN
  ELSE IF ~IsFinite(x) THEN Inf(IF Sgn(y) < 0 THEN -Sgn(x) ELSE Sgn(x))
  ELSE IF ~IsFinite(y) THEN N(0)
  ELSE IF y.n = 0 THEN (IF x.n = 0 THEN NaN ELSE Inf(Sgn(x)))
  ELSE Rat(x.n * y.d, x.d * y.n)

\* x < y (false when either is NaN)
Lt(x, y) ==
  IF IsNaN(x) \/ IsNaN(y) THEN FALSE
  ELSE IF ~IsFinite(x) THEN x.n < 0 /\ y # x
  ELSE IF ~IsFinite(y) THEN y.n > 0
  ELSE x.n * y.d < y.n * x.d

\* x === y on numbers (false when either is NaN)
Eq(x, y) == ~IsNaN(x) /\ ~IsNaN(y) /\ x = y

Gt(x, y) == Lt(y, x)

Leq(x, y) == Lt(x, y) \/ Eq(x, y)

Geq(x, y) == Leq(y, x)

MathMax(x, y) ==
  IF IsNaN(x) \/ IsNaN(y) THEN NaN ELSE IF Lt(x, y) THEN y ELSE x

MathMin(x, y) ==
  IF IsNaN(x) \/ IsNaN(y) THEN NaN ELSE IF Lt(y, x) THEN y ELSE x

MathFloor(x) == IF IsFinite(x) THEN N(x.n \div x.d) ELSE x

\* Math.round: the nearest integer, halves towards +Infinity.
MathRound(x) == IF IsFinite(x) THEN N((2 * x.n + x.d) \div (2 * x.d)) ELSE x

\* x ** k for a whole k >= 0 (x ** 0 is 1 for every x, NaN included).
RECURSIVE PowInt(_, _)
PowInt(x, k) == IF k = 0 THEN N(1) ELSE Mul(x, PowInt(x, k - 1))

\* x ** e and Math.pow(x, e).  Exact when e is a whole number >= 0 or the
\* base is 1; the callers' inputs are drawn so that one of the two holds.
Pow(x, e) ==
  IF IsNaN(e) THEN NaN
  ELSE IF e.d = 1 /\ e.n >= 0 THEN PowInt(x, e.n)
  ELSE IF x = N(1) /\ IsFinite(e) THEN N(1)
  ELSE NaN

---------------------------------------------------------------------------
(* IEEE-754 binary64 arithmetic, round to nearest even *)

\* F(x), with x computed before F is entered: the value a statement assigns
\* is computed before the statements after it run.
Then(x, F(_)) == CHOOSE r \in {F(v) : v \in {x}} : TRUE

\* A natural number of any size is a sequence of limbs, lowest first, each
\* below LimbBase (14 bits); the empty sequence is 0 and the top limb of any
\* other number is not 0.
LimbBase == 2^14

RECURSIVE BigOfInt(_)
BigOfInt(i) == IF i = 0 THEN << >> ELSE <<i % LimbBase>> \o BigOfInt(i \div LimbBase)

RECURSIVE BigToInt(_)
BigToInt(a) == IF a = << >> THEN 0 ELSE a[1] + LimbBase * BigToInt(Tail(a))

RECURSIVE BigStrip(_)
BigStrip(a) ==
  IF a = << >> THEN << >>
  ELSE IF a[Len(a)] = 0 THEN BigStrip(SubSeq(a, 1, Len(a) - 1)) ELSE a

Limb(a, i) == IF i <= Len(a) THEN a[i] ELSE 0

RECURSIVE BigAddFrom(_, _, _, _)
BigAddFrom(a, b, i, carry) ==
  IF i > Len(a) /\ i > Len(b)
    THEN (IF carry = 0 THEN << >> ELSE <<carry>>)
    ELSE LET s == Limb(a, i) + Limb(b, i) + carry
         IN  <<s % LimbBase>> \o BigAddFrom(a, b, i + 1, s \div LimbBase)

BigAdd(a, b) == BigAddFrom(a, b, 1, 0)

RECURSIVE BigSubFrom(_, _, _, _)
BigSubFrom(a, b, i, borrow) ==
  IF i > Len(a) THEN << >>
  ELSE LET s == a[i] - Limb(b, i) - borrow
       IN  IF s < 0 THEN <<s + LimbBase>> \o BigSubFrom(a, b, i + 1, 1)
                    ELSE <<s>> \o BigSubFrom(a, b, i + 1, 0)

BigSub(a, b) == BigStrip(BigSubFrom(a, b, 1, 0))

RECURSIVE BigCmpFrom(_, _, _)
BigCmpFrom(a, b, i) ==
  IF i = 0 THEN 0
  ELSE IF a[i] # b[i] THEN (IF a[i] < b[i] THEN -1 ELSE 1)
  ELSE BigCmpFrom(a, b, i - 1)

BigCmp(a, b) ==
  IF Len(a) # Len(b) THEN (IF Len(a) < Len(b) THEN -1 ELSE 1)
  ELSE BigCmpFrom(a, b, Len(a))

RECURSIVE BigMulSmallFrom(_, _, _, _)
BigMulSmallFrom(a, k, i, carry) ==
  IF i > Len(a) THEN (IF carry = 0 THEN << >> ELSE <<carry>>)
  ELSE LET p == a[i] * k + carry
       IN  <<p % LimbBase>> \o BigMulSmallFrom(a, k, i + 1, p \div LimbBase)

BigMulSmall(a, k) == IF k = 0 THEN << >> ELSE BigMulSmallFrom(a, k, 1, 0)

RECURSIVE BigMulFrom(_, _, _)
BigMulFrom(a, b, j) ==
  IF j > Len(b) THEN << >>
  ELSE LET rest == BigMulFrom(a, b, j + 1)
       IN  BigAdd(BigMulSmall(a, b[j]), IF rest = << >> THEN << >> ELSE <<0>> \o rest)

BigMul(a, b) == BigMulFrom(a, b, 1)

\* floor(a / k) for 0 < k <= LimbBase, from the top limb down.
RECURSIVE BigDivSmallFrom(_, _, _, _)
BigDivSmallFrom(a, k, i, rem) ==
  IF i = 0 THEN << >>
  ELSE LET cur == rem * LimbBase + a[i]
       IN  Append(BigDivSmallFrom(a, k, i - 1, cur % k), cur \div k)

BigDivSmall(a, k) == BigStrip(BigDivSmallFrom(a, k, Len(a), 0))

Zeros(n) == [i \in 1..n |-> 0]

BigShl(a, n) ==
  IF a = << >> THEN << >>
  ELSE Zeros(n \div 14) \o BigMulSmall(a, 2^(n % 14))

BigShr(a, n) ==
  IF n \div 14 >= Len(a) THEN << >>
  ELSE BigDivSmall(SubSeq(a, n \div 14 + 1, Len(a)), 2^(n % 14))

RECURSIVE BitLenInt(_)
BitLenInt(i) == IF i = 0 THEN 0 ELSE 1 + BitLenInt(i \div 2)

BigBitLen(a) == IF a = << >> THEN 0 ELSE (Len(a) - 1) * 14 + BitLenInt(a[Len(a)])

BigOdd(a) == a # << >> /\ a[1] % 2 = 1

\* A finite double is [s, m, e]: the value s * m * 2^e with s = 1 or -1 and
\* m a 53-bit natural number (2^52 <= m < 2^53), or zero (m empty).
FZero == [s |-> 1, m |-> << >>, e |-> 0]

\* The double nearest to s * (M + f) * 2^e, ties to even, where 0 < f < 1 if
\* sticky and f = 0 otherwise.
FRound(s, M, e, sticky) ==
  IF M = << >> THEN FZero
  ELSE
    Then(BigBitLen(M) - 53, LAMBDA n :
      IF n <= 0 THEN [s |-> s, m |-> BigShl(M, -n), e |-> e + n]
      ELSE
        Then(BigShr(M, n), LAMBDA q :
        Then(BigSub(M, BigShl(q, n)), LAMBDA r :
        Then(BigCmp(r, BigShl(<<1>>, n - 1)), LAMBDA c :
        Then(IF c > 0 \/ (c = 0 /\ (sticky \/ BigOdd(q))) THEN BigAdd(q, <<1>>) ELSE q,
             LAMBDA q2 :
          IF BigBitLen(q2) > 53
            THEN [s |-> s, m |-> BigShr(q2, 1), e |-> e + n + 1]
            ELSE [s |-> s, m |-> q2, e |-> e + n])))))

FOfInt(i) == FRound(IF i < 0 THEN -1 ELSE 1, BigOfInt(IF i < 0 THEN -i ELSE i), 0, FALSE)

FNeg(x) == IF x.m = << >> THEN x ELSE [x EXCEPT !.s = -x.s]

FMul(x, y) == FRound(x.s * y.s, BigMul(x.m, y.m), x.e + y.e, FALSE)

\* floor(a / 2^42) for a < 2^70.
TopBits(a) == Limb(a, 4) + LimbBase * Limb(a, 5)

\* The quotient q < LimbBase and the remainder of R2 by D, for a 53-bit D
\* and R2 < D * LimbBase.  Dividing the top bits of R2 by those of D plus 1
\* never overestimates; the first estimate falls short by at most 33, the
\* second, on what is left, by at most 1.
DivStep(R2, D) ==
  LET q0 == TopBits(R2) \div (D[4] + 1)
      r0 == BigSub(R2, BigMulSmall(D, q0))
      q1 == TopBits(r0) \div (D[4] + 1)
      r1 == BigSub(r0, BigMulSmall(D, q1))
  IN  IF BigCmp(r1, D) >= 0 THEN [q |-> q0 + q1 + 1, r |-> BigSub(r1, D)]
                            ELSE [q |-> q0 + q1, r |-> r1]

\* R * LimbBase.
ShiftLimb(R) == IF R = << >> THEN << >> ELSE <<0>> \o R

\* x / y for y # 0: 56 quotient bits (a leading bit and four limbs by long
\* division) and a sticky remainder, then rounded.
FDiv(x, y) ==
  IF x.m = << >> THEN FZero
  ELSE
    Then(BigCmp(x.m, y.m) >= 0, LAMBDA ge :
    Then(DivStep(ShiftLimb(IF ge THEN BigSub(x.m, y.m) ELSE x.m), y.m), LAMBDA d1 :
    Then(DivStep(ShiftLimb(d1.r), y.m), LAMBDA d2 :
    Then(DivStep(ShiftLimb(d2.r), y.m), LAMBDA d3 :
    Then(DivStep(ShiftLimb(d3.r), y.m), LAMBDA d4 :
      FRound(x.s * y.s, BigStrip(<<d4.q, d3.q, d2.q, d1.q, IF ge THEN 1 ELSE 0>>),
             x.e - y.e - 56, d4.r # << >>))))))

FAdd(x, y) ==
  IF x.m = << >> THEN y
  ELSE IF y.m = << >> THEN x
  ELSE
    LET e == IF x.e < y.e THEN x.e ELSE y.e
        A == BigShl(x.m, x.e - e)
        C == BigShl(y.m, y.e - e)
    IN  IF x.s = y.s THEN FRound(x.s, BigAdd(A, C), e, FALSE)
        ELSE LET c == BigCmp(A, C)
             IN  IF c = 0 THEN FZero
                 ELSE IF c > 0 THEN FRound(x.s, BigSub(A, C), e, FALSE)
                 ELSE FRound(y.s, BigSub(C, A), e, FALSE)

FSub(x, y) == FAdd(x, FNeg(y))

\* The sign of x - y: -1, 0 or 1.
FCmp(x, y) == LET d == FSub(x, y) IN IF d.m = << >> THEN 0 ELSE d.s

FLt(x, y) == FCmp(x, y) < 0

FMin(x, y) == IF FLt(y, x) THEN y ELSE x

FMax(x, y) == IF FLt(x, y) THEN y ELSE x

\* Math.floor(x), as an integer.
FFloor(x) ==
  IF x.m = << >> THEN 0
  ELSE IF x.e >= 0 THEN x.s * BigToInt(BigShl(x.m, x.e))
  ELSE LET q == BigShr(x.m, -x.e)
           exact == BigShl(q, -x.e) = x.m
       IN  IF x.s > 0 THEN BigToInt(q)
           ELSE IF exact THEN -BigToInt(q) ELSE -BigToInt(q) - 1

\* The double nearest to the finite rational x (a number literal, or a whole
\* number field).
Double(x) == IF x.d = 1 THEN FOfInt(x.n) ELSE FDiv(FOfInt(x.n), FOfInt(x.d))

---------------------------------------------------------------------------
(* utils/constants.ts *)

TOKENS_PER_HOUR_SAVED == 10

DAILY_SCREEN_TIME_GOAL_HOURS == 8

\* KES_PER_TOKEN: 0.1
KES_PER_TOKEN == Rat(1, 10)

HOUR == 60 * 60

DAY == 24 * 60 * 60

---------------------------------------------------------------------------
(* services/rewardsEngine.ts *)

BASE_TOKENS_PER_HOUR == N(TOKENS_PER_HOUR_SAVED)

DAILY_GOAL_HOURS == N(DAILY_SCREEN_TIME_GOAL_HOURS)

\* A variant of calculateStreakBonus that adds up the payouts of all the
\* thresholds met.
calculateStreakBonus_Cumulative(currentStreak, goalMet) ==
  IF ~goalMet \/ Lt(currentStreak, N(2)) THEN N(0)
  ELSE N(2 + (IF Geq(currentStreak, N(3)) THEN 5 ELSE 0)
           + (IF Geq(currentStreak, N(7)) THEN 15 ELSE 0)
           + (IF Geq(currentStreak, N(14)) THEN 25 ELSE 0)
           + (IF Geq(currentStreak, N(21)) THEN 35 ELSE 0)
           + (IF Geq(currentStreak, N(30)) THEN 50 ELSE 0))

calculateStreakBonus(currentStreak, goalMet) ==
  IF ~goalMet \/ Lt(currentStreak, N(2)) THEN N(0)
  ELSE IF Geq(currentStreak, N(30)) THEN N(50)
  ELSE IF Geq(currentStreak, N(21)) THEN N(35)
  ELSE IF Geq(currentStreak, N(14)) THEN N(25)
  ELSE IF Geq(currentStreak, N(7)) THEN N(15)
  ELSE IF Geq(currentStreak, N(3)) THEN N(5)
  ELSE N(2)

percentageUnderGoal(screenTimeHours, goalHours) ==
  Mul(Div(Sub(goalHours, screenTimeHours), goalHours), N(100))

\* A variant of calculateMilestoneBonus whose tiers start strictly above 50%
\* and 25%.
calculateMilestoneBonus_StrictTiers(screenTimeHours, goalHours) ==
  IF Gt(percentageUnderGoal(screenTimeHours, goalHours), N(50)) THEN N(20)
  ELSE IF Gt(percentageUnderGoal(screenTimeHours, goalHours), N(25)) THEN N(10)
  ELSE N(0)

calculateMilestoneBonus(screenTimeHours, goalHours) ==
  IF Geq(percentageUnderGoal(screenTimeHours, goalHours), N(50)) THEN N(20)
  ELSE IF Geq(percentageUnderGoal(screenTimeHours, goalHours), N(25)) THEN N(10)
  ELSE N(0)

getMilestoneDescription(screenTimeHours, goalHours) ==
  IF Geq(percentageUnderGoal(screenTimeHours, goalHours), N(50))
    THEN "Exceptional! 50%+ under goal"
  ELSE IF Geq(percentageUnderGoal(screenTimeHours, goalHours), N(25))
    THEN "Great job! 25%+ under goal"
  ELSE "Milestone achieved"

\* A variant of PushEntry that pushes the entry and leaves totalTokens alone.
PushEntry_TotalNotUpdated(acc, type, description, tokens) ==
  IF Gt(tokens, N(0))
    THEN [breakdown |-> Append(acc.breakdown,
                          [type |-> type, description |-> description,
                           tokens |-> tokens]),
          totalTokens |-> acc.totalTokens]
    ELSE acc

\* One "if (tokens > 0) { breakdown.push(entry); totalTokens += tokens }" of
\* calculateDailyReward, on the pair acc = [breakdown, totalTokens].
PushEntry(acc, type, description, tokens) ==
  IF Gt(tokens, N(0))
    THEN [breakdown |-> Append(acc.breakdown,
                          [type |-> type, description |-> description,
                           tokens |-> tokens]),
          totalTokens |-> Add(acc.totalTokens, tokens)]
    ELSE acc

\* const hoursUnderGoal = Math.max(0, goalHours - screenTimeHours)
hoursUnderGoal(screenTimeHours, goalHours) ==
  MathMax(N(0), Sub(goalHours, screenTimeHours))

\* A variant of dailyGoalMet that misses the goal at equality.
dailyGoalMet_Strict(screenTimeHours, goalHours) == Lt(screenTimeHours, goalHours)

\* const dailyGoalMet = screenTimeHours <= goalHours
dailyGoalMet(screenTimeHours, goalHours) == Leq(screenTimeHours, goalHours)

\* A variant of baseTokens that rounds to the nearest token.
baseTokens_Rounded(hoursUnder) == MathRound(Mul(hoursUnder, BASE_TOKENS_PER_HOUR))

\* const baseTokens = Math.floor(hoursUnderGoal * this.BASE_TOKENS_PER_HOUR)
baseTokens(hoursUnder) == MathFloor(Mul(hoursUnder, BASE_TOKENS_PER_HOUR))

\* The base and streak descriptions interpolate a number into display text;
\* the model keeps the text's fixed part.
calculateDailyReward(screenTimeMs, goalHours, currentStreak) ==
  LET screenTimeHours == Div(screenTimeMs, N(HOUR))
      hoursUnder      == hoursUnderGoal(screenTimeHours, goalHours)
      goalMet         == dailyGoalMet(screenTimeHours, goalHours)
      base            == baseTokens(hoursUnder)
      streakBonus     == calculateStreakBonus(currentStreak, goalMet)
      milestoneBonus  == calculateMilestoneBonus(screenTimeHours, goalHours)
      a0 == [breakdown |-> << >>, totalTokens |-> N(0)]
      a1 == PushEntry(a0, "base", "hours under goal", base)
      a2 == PushEntry(a1, "streak", "day streak bonus", streakBonus)
      a3 == PushEntry(a2, "milestone",
                      getMilestoneDescription(screenTimeHours, goalHours),
                      milestoneBonus)
  IN  [tokensEarned   |-> base,
       hoursUnderGoal |-> hoursUnder,
       dailyGoalMet   |-> goalMet,
       streakBonus    |-> streakBonus,
       totalReward    |-> a3.totalTokens,
       breakdown      |-> a3.breakdown]


\* The value of calculateWeeklyPerformance's locals before the first day.
WeeklyStart ==
  [totalTokens |-> N(0), goalsMetCount |-> N(0),
   longestStreak |-> N(0), tempStreak |-> N(0)]

\* A variant of WeeklyDay that takes the maximum before counting the day.
WeeklyDay_StaleLongest(acc, screenTimeMs) ==
  LET reward == calculateDailyReward(screenTimeMs, DAILY_GOAL_HOURS, acc.tempStreak)
  IN  IF reward.dailyGoalMet
        THEN [totalTokens   |-> Add(acc.totalTokens, reward.totalReward),
              goalsMetCount |-> Add(acc.goalsMetCount, N(1)),
              tempStreak    |-> Add(acc.tempStreak, N(1)),
              longestStreak |-> MathMax(acc.longestStreak, acc.tempStreak)]
        ELSE [totalTokens   |-> Add(acc.totalTokens, reward.totalReward),
              goalsMetCount |-> acc.goalsMetCount,
              tempStreak    |-> N(0),
              longestStreak |-> acc.longestStreak]

\* A variant of WeeklyDay that counts the day into the streak before it
\* computes the day's reward.
WeeklyDay_StreakCountedFirst(acc, screenTimeMs) ==
  LET reward == calculateDailyReward(screenTimeMs, DAILY_GOAL_HOURS,
                                     Add(acc.tempStreak, N(1)))
  IN  IF reward.dailyGoalMet
        THEN [totalTokens   |-> Add(acc.totalTokens, reward.totalReward),
              goalsMetCount |-> Add(acc.goalsMetCount, N(1)),
              tempStreak    |-> Add(acc.tempStreak, N(1)),
              longestStreak |-> MathMax(acc.longestStreak, Add(acc.tempStreak, N(1)))]
        ELSE [totalTokens   |-> Add(acc.totalTokens, reward.totalReward),
              goalsMetCount |-> acc.goalsMetCount,
              tempStreak    |-> N(0),
              longestStreak |-> acc.longestStreak]

\* A variant of WeeklyDay in which a missed day resets longestStreak too.
WeeklyDay_LongestReset(acc, screenTimeMs) ==
  LET reward == calculateDailyReward(screenTimeMs, DAILY_GOAL_HOURS, acc.tempStreak)
  IN  IF reward.dailyGoalMet
        THEN [totalTokens   |-> Add(acc.totalTokens, reward.totalReward),
              goalsMetCount |-> Add(acc.goalsMetCount, N(1)),
              tempStreak    |-> Add(acc.tempStreak, N(1)),
              longestStreak |-> MathMax(acc.longestStreak, Add(acc.tempStreak, N(1)))]
        ELSE [totalTokens   |-> Add(acc.totalTokens, reward.totalReward),
              goalsMetCount |-> acc.goalsMetCount,
              tempStreak    |-> N(0),
              longestStreak |-> N(0)]

\* One pass of the loop "for (const screenTimeMs of dailyScreenTimes)".
WeeklyDay(acc, screenTimeMs) ==
  LET reward == calculateDailyReward(screenTimeMs, DAILY_GOAL_HOURS, acc.tempStreak)
  IN  IF reward.dailyGoalMet
        THEN [totalTokens   |-> Add(acc.totalTokens, reward.totalReward),
              goalsMetCount |-> Add(acc.goalsMetCount, N(1)),
              tempStreak    |-> Add(acc.tempStreak, N(1)),
              longestStreak |-> MathMax(acc.longestStreak, Add(acc.tempStreak, N(1)))]
        ELSE [totalTokens   |-> Add(acc.totalTokens, reward.totalReward),
              goalsMetCount |-> acc.goalsMetCount,
              tempStreak    |-> N(0),
              longestStreak |-> acc.longestStreak]

\* The loop's locals after the first k days.
RECURSIVE WeeklyLoop(_, _)
WeeklyLoop(dailyScreenTimes, k) ==
  IF k = 0 THEN WeeklyStart
  ELSE WeeklyDay(WeeklyLoop(dailyScreenTimes, k - 1), dailyScreenTimes[k])

\* dailyScreenTimes.reduce((sum, time) => sum + time, 0) over the first k days.
RECURSIVE SumTimes(_, _)
SumTimes(dailyScreenTimes, k) ==
  IF k = 0 THEN N(0)
  ELSE Add(SumTimes(dailyScreenTimes, k - 1), dailyScreenTimes[k])

performanceLevel(goalPercentage) ==
  IF Geq(goalPercentage, Rat(8, 10)) THEN "excellent"
  ELSE IF Geq(goalPercentage, Rat(5, 10)) THEN "good"
  ELSE "needs_improvement"

\* calculateWeeklyPerformance past its check for an empty history.
WeeklySummary(dailyScreenTimes) ==
  LET end == WeeklyLoop(dailyScreenTimes, Len(dailyScreenTimes))
      currentStreak == end.tempStreak
      averageScreenTime ==
        Div(SumTimes(dailyScreenTimes, Len(dailyScreenTimes)),
            N(Len(dailyScreenTimes)))
      goalPercentage == Div(end.goalsMetCount, N(Len(dailyScreenTimes)))
  IN  [totalTokensEarned |-> end.totalTokens,
       averageScreenTime |-> averageScreenTime,
       goalsMetCount     |-> end.goalsMetCount,
       streakData        |-> [currentStreak  |-> currentStreak,
                              longestStreak  |-> end.longestStreak,
                              weeklyGoalsMet |-> end.goalsMetCount],
       performance       |-> performanceLevel(goalPercentage)]

\* A variant of calculateWeeklyPerformance without the check for an empty
\* history.
calculateWeeklyPerformance_NoEmptyCheck(dailyScreenTimes) ==
  WeeklySummary(dailyScreenTimes)

calculateWeeklyPerformance(dailyScreenTimes) ==
  IF Len(dailyScreenTimes) = 0
    THEN [totalTokensEarned |-> N(0),
          averageScreenTime |-> N(0),
          goalsMetCount     |-> N(0),
          streakData        |-> [currentStreak |-> N(0), longestStreak |-> N(0),
                                 weeklyGoalsMet |-> N(0)],
          performance       |-> "needs_improvement"]
    ELSE WeeklySummary(dailyScreenTimes)

\* categoryBreakdown[category] || 0
LedgerEntry(categoryBreakdown, category) ==
  IF category \in DOMAIN categoryBreakdown /\ ~IsNaN(categoryBreakdown[category])
    THEN categoryBreakdown[category]
    ELSE N(0)

\* categoryBreakdown[category] = value
SetLedgerEntry(categoryBreakdown, category, value) ==
  [c \in DOMAIN categoryBreakdown \cup {category} |->
     IF c = category THEN value ELSE categoryBreakdown[c]]

\* The bonus branch of the forEach callback of calculateAppSpecificRewards.
AppBonus(acc, app, hours) ==
  IF app.category = "Productivity" \/ app.category = "Education"
    THEN LET bonus == MathFloor(Mul(hours, N(2)))
         IN  [acc EXCEPT
                !.productiveAppBonus = Add(@, bonus),
                !.categoryBreakdown =
                   SetLedgerEntry(@, app.category,
                                  Add(LedgerEntry(@, app.category), bonus))]
    ELSE acc

\* The penalty branch of the forEach callback.
AppPenalty(acc, app, hours) ==
  IF app.category = "Social Media" /\ Gt(hours, N(2))
    THEN LET penalty == MathFloor(Mul(Sub(hours, N(2)), N(3)))
         IN  [acc EXCEPT
                !.socialMediaPenalty = Add(@, penalty),
                !.categoryBreakdown =
                   SetLedgerEntry(@, app.category,
                                  Sub(LedgerEntry(@, app.category), penalty))]
    ELSE acc

\* One call of the forEach callback, on acc = [productiveAppBonus,
\* socialMediaPenalty, categoryBreakdown].
AppStep(acc, app) ==
  LET hours == Div(app.timeSpent, N(HOUR))
  IN  AppPenalty(AppBonus(acc, app, hours), app, hours)

RECURSIVE AppLoop(_, _)
AppLoop(appUsage, k) ==
  IF k = 0
    THEN [productiveAppBonus |-> N(0), socialMediaPenalty |-> N(0),
          categoryBreakdown |-> << >>]
    ELSE AppStep(AppLoop(appUsage, k - 1), appUsage[k])

calculateAppSpecificRewards(appUsage) == AppLoop(appUsage, Len(appUsage))

---------------------------------------------------------------------------
(* services/savingsSim.ts *)

MathCeil(x) == Neg(MathFloor(Neg(x)))

\* A variant of daysToGoal without the one-day minimum.
daysToGoal_Unclamped(targetDate, t) == MathCeil(Div(Sub(targetDate, t), N(DAY)))

\* const daysToGoal = Math.max(1, Math.ceil((targetDate - now) / CONSTANTS.TIME.DAY))
daysToGoal(targetDate, t) ==
  MathMax(N(1), MathCeil(Div(Sub(targetDate, t), N(DAY))))

\* t is the value Date.now() returns during the call.
calculateSavingsProjection(currentSavings, goalAmount, targetDate, averageDailyTokens, t) ==
  LET amountNeeded == MathMax(N(0), Sub(goalAmount, currentSavings))
      dailyKESFromTokens   == Mul(averageDailyTokens, KES_PER_TOKEN)
      monthlyKESFromTokens == Mul(dailyKESFromTokens, N(30))
      dailyRequired   == Div(amountNeeded, daysToGoal(targetDate, t))
      weeklyRequired  == Mul(dailyRequired, N(7))
      monthlyRequired == Mul(dailyRequired, N(30))
      feasibleWithTokensOnly == Geq(monthlyKESFromTokens, monthlyRequired)
      feasible == feasibleWithTokensOnly \/ Leq(monthlyRequired, N(10000))
      r1 == IF ~feasible
              THEN <<"Consider extending your target date or reducing the goal amount">>
              ELSE << >>
      r2 == IF Gt(monthlyRequired, monthlyKESFromTokens)
              THEN Append(r1, "You'll need an additional KES monthly beyond tokens")
              ELSE r1
      r3 == IF Lt(averageDailyTokens, N(30))
              THEN Append(r2, "Reduce your screen time more to earn additional tokens")
              ELSE r2
      r4 == Append(r3, "Consider investing tokens in MMFs for compound growth")
  IN  [timeToGoal      |-> daysToGoal(targetDate, t),
       monthlyRequired |-> monthlyRequired,
       weeklyRequired  |-> weeklyRequired,
       dailyRequired   |-> dailyRequired,
       feasible        |-> feasible,
       recommendations |-> r4]

calculateInvestmentProjection(principal, annualRate, timeHorizonDays, monthlyContribution) ==
  LET years       == Div(timeHorizonDays, N(365))
      monthlyRate == Div(Div(annualRate, N(100)), N(12))
      months      == Div(timeHorizonDays, N(30))
      annuityFV   == Mul(monthlyContribution,
                         Div(Sub(Pow(Add(N(1), monthlyRate), months), N(1)),
                             monthlyRate))
      principalFV == Mul(principal, Pow(Add(N(1), monthlyRate), months))
      projectedValue ==
        IF Gt(monthlyContribution, N(0))
          THEN Add(principalFV, annuityFV)
          ELSE Mul(principal, Pow(Add(N(1), Div(annualRate, N(100))), years))
      totalReturn == Sub(Sub(projectedValue, principal),
                         Mul(monthlyContribution, months))
      returnPercentage == Mul(Div(Sub(projectedValue, principal), principal), N(100))
  IN  [principal           |-> principal,
       projectedValue      |-> MathRound(projectedValue),
       totalReturn         |-> MathRound(totalReturn),
       returnPercentage    |-> Div(MathRound(Mul(returnPercentage, N(100))), N(100)),
       timeHorizon         |-> timeHorizonDays,
       monthlyContribution |-> monthlyContribution]

calculateScreenTimeToSavings(currentScreenTimeHours, targetScreenTimeHours, dailyGoalHours) ==
  LET currentHoursUnderGoal == MathMax(N(0), Sub(dailyGoalHours, currentScreenTimeHours))
      currentDailyTokens    == Mul(currentHoursUnderGoal, N(TOKENS_PER_HOUR_SAVED))
      targetHoursUnderGoal  == MathMax(N(0), Sub(dailyGoalHours, targetScreenTimeHours))
      targetDailyTokens     == Mul(targetHoursUnderGoal, N(TOKENS_PER_HOUR_SAVED))
      dailyTokensPotential   == MathMax(N(0), Sub(targetDailyTokens, currentDailyTokens))
      monthlyTokensPotential == Mul(dailyTokensPotential, N(30))
      monthlyKESEquivalent   == Mul(monthlyTokensPotential, KES_PER_TOKEN)
      annualSavingsPotential == Mul(monthlyKESEquivalent, N(12))
  IN  [currentDailyScreenTime |-> currentScreenTimeHours,
       targetDailyScreenTime  |-> targetScreenTimeHours,
       dailyTokensPotential   |-> dailyTokensPotential,
       monthlyTokensPotential |-> monthlyTokensPotential,
       monthlyKESEquivalent   |-> monthlyKESEquivalent,
       annualSavingsPotential |-> annualSavingsPotential]

\* The catalog of scenarios of generateScreenTimeScenarios, in its order.
scenarios(currentScreenTimeHours) ==
  << [scenario |-> "Modest Reduction", reduction |-> N(1), difficulty |-> "easy"],
     [scenario |-> "Moderate Reduction", reduction |-> N(2), difficulty |-> "medium"],
     [scenario |-> "Aggressive Reduction", reduction |-> N(3), difficulty |-> "hard"],
     [scenario |-> "Meet Daily Goal",
      reduction |-> MathMax(N(0), Sub(currentScreenTimeHours,
                                      N(DAILY_SCREEN_TIME_GOAL_HOURS))),
      difficulty |-> IF Gt(currentScreenTimeHours, N(10)) THEN "hard" ELSE "medium"] >>

\* A variant of scenarioTargetHours whose floor is 0 hours.
scenarioTargetHours_FloorAtZero(currentScreenTimeHours, reduction) ==
  MathMax(N(0), Sub(currentScreenTimeHours, reduction))

\* const targetHours = Math.max(1, currentScreenTimeHours - reduction)
scenarioTargetHours(currentScreenTimeHours, reduction) ==
  MathMax(N(1), Sub(currentScreenTimeHours, reduction))

\* The body of the map: the entry returned for one scenario of the catalog.
projectScenario(currentScreenTimeHours, s) ==
  LET targetHours == scenarioTargetHours(currentScreenTimeHours, s.reduction)
      savings == calculateScreenTimeToSavings(currentScreenTimeHours, targetHours,
                                              N(DAILY_SCREEN_TIME_GOAL_HOURS))
  IN  [scenario    |-> s.scenario,
       targetHours |-> targetHours,
       dailyTokens |-> savings.dailyTokensPotential,
       monthlyKES  |-> MathRound(savings.monthlyKESEquivalent),
       annualKES   |-> MathRound(savings.annualSavingsPotential),
       difficulty  |-> s.difficulty]

\* s => s.dailyTokens > 0
earnsTokens(s) == Gt(s.dailyTokens, N(0))

generateScreenTimeScenarios(currentScreenTimeHours) ==
  LET catalog == scenarios(currentScreenTimeHours)
  IN  SelectSeq([i \in DOMAIN catalog |->
                   projectScenario(currentScreenTimeHours, catalog[i])],
                earnsTokens)

\* monthlyKESContribution * (((1 + monthlyRate) ** months - 1) / monthlyRate)
annuityValue(monthlyKESContribution, monthlyRate, months) ==
  Mul(monthlyKESContribution,
      Div(Sub(Pow(Add(N(1), monthlyRate), months), N(1)), monthlyRate))

\* A variant of breakdownByYear that values year k at its first month.
RECURSIVE breakdownByYear_StartOfYear(_, _, _)
breakdownByYear_StartOfYear(monthlyKESContribution, monthlyRate, k) ==
  IF k <= 0 THEN << >>
  ELSE
    LET monthsToThisYear    == N((k - 1) * 12)
        valueAtYear         == annuityValue(monthlyKESContribution, monthlyRate,
                                            monthsToThisYear)
        contributionsAtYear == Mul(monthlyKESContribution, monthsToThisYear)
        returnsAtYear       == Sub(valueAtYear, contributionsAtYear)
    IN  Append(breakdownByYear_StartOfYear(monthlyKESContribution, monthlyRate, k - 1),
               [year          |-> N(k),
                contributions |-> MathRound(contributionsAtYear),
                value         |-> MathRound(valueAtYear),
                returns       |-> MathRound(returnsAtYear)])

\* The entries the loop "for (let year = 1; year <= years; year++)" pushes
\* for the years 1..k.
RECURSIVE breakdownByYear(_, _, _)
breakdownByYear(monthlyKESContribution, monthlyRate, k) ==
  IF k <= 0 THEN << >>
  ELSE
    LET monthsToThisYear    == N(k * 12)
        valueAtYear         == annuityValue(monthlyKESContribution, monthlyRate,
                                            monthsToThisYear)
        contributionsAtYear == Mul(monthlyKESContribution, monthsToThisYear)
        returnsAtYear       == Sub(valueAtYear, contributionsAtYear)
    IN  Append(breakdownByYear(monthlyKESContribution, monthlyRate, k - 1),
               [year          |-> N(k),
                contributions |-> MathRound(contributionsAtYear),
                value         |-> MathRound(valueAtYear),
                returns       |-> MathRound(returnsAtYear)])

\* years is a whole number of years.
calculateLongTermSavings(monthlyTokenContribution, years, averageMMFRate) ==
  LET monthlyKESContribution == Mul(monthlyTokenContribution, KES_PER_TOKEN)
      monthlyRate        == Div(Div(averageMMFRate, N(100)), N(12))
      totalMonths        == Mul(years, N(12))
      futureValue        == annuityValue(monthlyKESContribution, monthlyRate, totalMonths)
      totalContributions == Mul(monthlyKESContribution, totalMonths)
      totalReturns       == Sub(futureValue, totalContributions)
  IN  [totalContributions |-> MathRound(totalContributions),
       projectedValue     |-> MathRound(futureValue),
       totalReturns       |-> MathRound(totalReturns),
       monthlyKESValue    |-> MathRound(monthlyKESContribution),
       breakdownByYear    |-> breakdownByYear(monthlyKESContribution, monthlyRate,
                                              years.n)]

\* The "filter(goal => goal.isActive)" of calculateOptimalAllocation.
RECURSIVE ActiveGoals(_)
ActiveGoals(goals) ==
  IF goals = << >> THEN << >>
  ELSE IF Head(goals).isActive
         THEN <<Head(goals)>> \o ActiveGoals(Tail(goals))
         ELSE ActiveGoals(Tail(goals))

\* The number literals of calculateOptimalAllocation, as doubles.
COMPLETION_ALMOST_DONE == Double(Rat(8, 10))

BOOST_BELOW_SHARE == Double(Rat(3, 10))

BOOST_TO_SHARE == Double(Rat(5, 10))

KES_PER_TOKEN_DOUBLE == Double(KES_PER_TOKEN)

\* urgency and completion are doubles.
goalPriority(urgency, completion) ==
  IF FLt(urgency, FOfInt(30)) /\ FLt(completion, COMPLETION_ALMOST_DONE) THEN "high"
  ELSE IF FLt(urgency, FOfInt(90)) \/ FLt(COMPLETION_ALMOST_DONE, completion) THEN "medium"
  ELSE "low"

\* The "map(goal => ...)" that adds urgency, completion and priority to a goal.
Prioritize(goal, t) ==
  Then(FSub(Double(goal.targetDate), Double(t)), LAMBDA timeRemaining :
  Then(FDiv(Double(goal.currentAmount), Double(goal.targetAmount)), LAMBDA completion :
  Then(FDiv(timeRemaining, FOfInt(DAY)), LAMBDA urgency :
    [id |-> goal.id, name |-> goal.name,
     targetAmount |-> goal.targetAmount, currentAmount |-> goal.currentAmount,
     targetDate |-> goal.targetDate, isActive |-> goal.isActive,
     urgency |-> urgency, completion |-> completion,
     priority |-> goalPriority(urgency, completion)])))

priorityOrder(p) == IF p = "high" THEN 0 ELSE IF p = "medium" THEN 1 ELSE 2

\* A variant of compareGoals that orders by priority alone.
compareGoals_PriorityOnly(a, b) ==
  priorityOrder(a.priority) - priorityOrder(b.priority)

\* The comparator handed to sort(), up to a positive factor: negative when
\* a sorts before b.  (A difference of two doubles is 0 only if they are
\* equal.)
compareGoals(a, b) ==
  IF priorityOrder(a.priority) # priorityOrder(b.priority)
    THEN priorityOrder(a.priority) - priorityOrder(b.priority)
    ELSE FCmp(a.urgency, b.urgency)

\* Array.prototype.sort is stable: x goes after every element it does not
\* sort strictly before.
RECURSIVE SortedInsert(_, _)
SortedInsert(s, x) ==
  IF s = << >> THEN <<x>>
  ELSE IF compareGoals(s[Len(s)], x) > 0
         THEN Append(SortedInsert(SubSeq(s, 1, Len(s) - 1), x), s[Len(s)])
         ELSE Append(s, x)

RECURSIVE SortGoals(_, _)
SortGoals(s, k) ==
  IF k = 0 THEN << >> ELSE SortedInsert(SortGoals(s, k - 1), s[k])

\* The "map(goal => ...)" over the active goals.
RECURSIVE PrioritizeAll(_, _)
PrioritizeAll(goals, t) ==
  IF goals = << >> THEN << >>
  ELSE <<Prioritize(Head(goals), t)>> \o PrioritizeAll(Tail(goals), t)

prioritizedGoals(savingsGoals, t) ==
  Then(PrioritizeAll(ActiveGoals(savingsGoals), t), LAMBDA mapped :
    SortGoals(mapped, Len(mapped)))

\* The KES a goal needs per month: (amountNeeded / timeRemainingDays) * 30,
\* a double.
monthlyNeed(goal) ==
  Then(FSub(Double(goal.targetAmount), Double(goal.currentAmount)), LAMBDA amountNeeded :
  Then(FMax(FOfInt(1), goal.urgency), LAMBDA timeRemainingDays :
  Then(FDiv(amountNeeded, timeRemainingDays), LAMBDA perDay :
    FMul(perDay, FOfInt(30)))))

\* One call of the "map(goal => ...)" that hands out the budget, on
\* acc = [remainingKES, totalAllocatedTokens, mapped].  remainingKES and
\* recommendedKES are doubles; the token counts are whole numbers.
AllocateGoal(acc, goal) ==
  Then(monthlyNeed(goal), LAMBDA need :
  Then(FMin(acc.remainingKES, need), LAMBDA firstKES :
  Then(IF goal.priority = "high" /\ FLt(firstKES, FMul(need, BOOST_BELOW_SHARE))
         THEN FMin(acc.remainingKES, FMul(need, BOOST_TO_SHARE))
         ELSE firstKES, LAMBDA boostedKES :
  Then(FFloor(FDiv(boostedKES, KES_PER_TOKEN_DOUBLE)), LAMBDA recommendedTokens :
  Then(FMul(FOfInt(recommendedTokens), KES_PER_TOKEN_DOUBLE), LAMBDA recommendedKES :
    [remainingKES         |-> FSub(acc.remainingKES, recommendedKES),
     totalAllocatedTokens |-> Add(acc.totalAllocatedTokens, N(recommendedTokens)),
     mapped |-> Append(acc.mapped,
                  [goalId |-> goal.id, goalName |-> goal.name,
                   recommendedTokens |-> N(recommendedTokens),
                   recommendedKES |-> recommendedKES,
                   priority |-> goal.priority])])))))

RECURSIVE AllocateLoop(_, _, _)
AllocateLoop(goals, k, monthlyTokens) ==
  IF k = 0
    THEN [remainingKES |-> FMul(Double(monthlyTokens), KES_PER_TOKEN_DOUBLE),
          totalAllocatedTokens |-> N(0), mapped |-> << >>]
    ELSE Then(AllocateLoop(goals, k - 1, monthlyTokens), LAMBDA acc :
           AllocateGoal(acc, goals[k]))

\* The "filter(allocation => allocation.recommendedTokens > 0)".
RECURSIVE PositiveAllocations(_)
PositiveAllocations(s) ==
  IF s = << >> THEN << >>
  ELSE IF Gt(Head(s).recommendedTokens, N(0))
         THEN <<Head(s)>> \o PositiveAllocations(Tail(s))
         ELSE PositiveAllocations(Tail(s))

\* The sum of recommendedTokens over a list of allocations.
RECURSIVE SumRecommended(_)
SumRecommended(s) ==
  IF s = << >> THEN N(0)
  ELSE Add(Head(s).recommendedTokens, SumRecommended(Tail(s)))

\* A variant of calculateOptimalAllocation that totals the returned list.
calculateOptimalAllocation_ListedTotal(monthlyTokens, savingsGoals, t) ==
  IF Len(savingsGoals) = 0
    THEN [allocation |-> << >>, remainingTokens |-> monthlyTokens,
          totalAllocated |-> N(0)]
    ELSE
      Then(prioritizedGoals(savingsGoals, t), LAMBDA sorted :
      Then(AllocateLoop(sorted, Len(sorted), monthlyTokens), LAMBDA end :
          [allocation      |-> PositiveAllocations(end.mapped),
           remainingTokens |-> Sub(monthlyTokens, end.totalAllocatedTokens),
           totalAllocated  |-> SumRecommended(PositiveAllocations(end.mapped))]))

\* t is the value Date.now() returns during the call.
calculateOptimalAllocation(monthlyTokens, savingsGoals, t) ==
  IF Len(savingsGoals) = 0
    THEN [allocation |-> << >>, remainingTokens |-> monthlyTokens,
          totalAllocated |-> N(0)]
    ELSE
      Then(prioritizedGoals(savingsGoals, t), LAMBDA sorted :
      Then(AllocateLoop(sorted, Len(sorted), monthlyTokens), LAMBDA end :
          [allocation      |-> PositiveAllocations(end.mapped),
           remainingTokens |-> Sub(monthlyTokens, end.totalAllocatedTokens),
           totalAllocated  |-> end.totalAllocatedTokens]))

---------------------------------------------------------------------------
(* store/walletStore.ts, with tokensToKES of the utilities *)

\* The state of the wallet store is a record of its data fields; every
\* number in it is a double.  An operation takes the state it finds and
\* gives the state it sets and the error it throws, "none" if it returns.
\* generateId() joins the clock reading and nine random characters: the ids
\* it makes are taken to be distinct, and are numbered in the order of their
\* making.

\* Math.round(x), as an integer: the nearest one, the upper of two nearest.
FMathRound(x) ==
  Then(FFloor(x), LAMBDA f :
    IF FCmp(FSub(x, FOfInt(f)), Double(Rat(1, 2))) >= 0 THEN f + 1 ELSE f)

\* export const tokensToKES = (tokens) => tokens * 0.1
tokensToKES(tokens) == FMul(tokens, Double(Rat(1, 10)))

InitialWallet ==
  [tokenBalance   |-> FZero,
   totalEarned    |-> FZero,
   totalInvested  |-> FZero,
   currentSavings |-> FZero,
   transactions   |-> << >>,
   investments    |-> << >>,
   savingsGoals   |-> << >>]

Sets(state) == [state |-> state, error |-> "none"]

Throws(state, message) == [state |-> state, error |-> message]

\* The description of an earned transaction; the number of minutes that the
\* source interpolates is left out of the text.  The descriptions that name
\* a fund are the pair of the fixed text and the name.
earnedDescription(screenTime) ==
  IF screenTime # "undefined" /\ screenTime # FZero
    THEN "Earned from minutes of reduced screen time"
    ELSE "Tokens earned"

addTokens(state, amount, screenTime, id, t) ==
  LET transaction == [id |-> id, type |-> "earned", amount |-> amount,
                      description |-> earnedDescription(screenTime),
                      timestamp |-> t, relatedScreenTime |-> screenTime]
  IN  Sets([state EXCEPT !.tokenBalance = FAdd(@, amount),
                         !.totalEarned = FAdd(@, amount),
                         !.transactions = <<transaction>> \o @])

\* A variant of deductTokens that does not test the balance.
deductTokens_Unchecked(state, amount, reason, id, t) ==
  LET transaction == [id |-> id, type |-> "withdrawn", amount |-> FNeg(amount),
                      description |-> reason, timestamp |-> t]
  IN  Sets([state EXCEPT !.tokenBalance = FSub(@, amount),
                         !.transactions = <<transaction>> \o @])

deductTokens(state, amount, reason, id, t) ==
  IF FLt(state.tokenBalance, amount)
    THEN Throws(state, "Insufficient token balance")
    ELSE LET transaction == [id |-> id, type |-> "withdrawn",
                             amount |-> FNeg(amount), description |-> reason,
                             timestamp |-> t]
         IN  Sets([state EXCEPT !.tokenBalance = FSub(@, amount),
                                !.transactions = <<transaction>> \o @])

\* generateId() is called for the investment first and the transaction next.
investTokens(state, mmfName, tokens, kesAmount, id, t) ==
  IF FLt(state.tokenBalance, tokens)
    THEN Throws(state, "Insufficient token balance")
    ELSE LET investment == [id |-> id, mmfName |-> mmfName, amount |-> kesAmount,
                            tokensInvested |-> tokens, currentValue |-> kesAmount,
                            returnRate |-> FZero, investedAt |-> t]
             transaction == [id |-> id + 1, type |-> "invested",
                             amount |-> FNeg(tokens),
                             description |-> <<"Invested in", mmfName>>,
                             timestamp |-> t]
         IN  Sets([state EXCEPT !.tokenBalance = FSub(@, tokens),
                                !.totalInvested = FAdd(@, kesAmount),
                                !.investments = Append(@, investment),
                                !.transactions = <<transaction>> \o @])

updateInvestmentValue(state, investmentId, newValue, returnRate) ==
  Sets([state EXCEPT !.investments =
          [i \in DOMAIN state.investments |->
             LET inv == state.investments[i]
             IN  IF inv.id = investmentId
                   THEN [inv EXCEPT !.currentValue = newValue,
                                    !.returnRate = returnRate]
                   ELSE inv]])

\* const tokensReturned = Math.round(investment.currentValue * 0.1)
tokensReturned(investment) ==
  FOfInt(FMathRound(FMul(investment.currentValue, Double(Rat(1, 10)))))

\* A variant of withdrawTransaction that records the tokens invested.
withdrawTransaction_AsInvested(investment, id, t) ==
  [id |-> id, type |-> "earned", amount |-> investment.tokensInvested,
   description |-> <<"Withdrawn from", investment.mmfName>>, timestamp |-> t]

withdrawTransaction(investment, id, t) ==
  [id |-> id, type |-> "earned", amount |-> tokensReturned(investment),
   description |-> <<"Withdrawn from", investment.mmfName>>, timestamp |-> t]

withdrawInvestment(state, investmentId, id, t) ==
  LET found == {i \in DOMAIN state.investments :
                  state.investments[i].id = investmentId}
  IN  IF found = {} THEN Sets(state)
      ELSE LET investment == state.investments[CHOOSE i \in found :
                                                 \A j \in found : i <= j]
           IN  Sets([state EXCEPT
                  !.tokenBalance = FAdd(@, tokensReturned(investment)),
                  !.investments = SelectSeq(@, LAMBDA inv : inv.id # investmentId),
                  !.transactions = <<withdrawTransaction(investment, id, t)>> \o @])

addTransaction(state, transactionData, id) ==
  Sets([state EXCEPT !.transactions =
          <<[f \in DOMAIN transactionData \cup {"id"} |->
               IF f = "id" THEN id ELSE transactionData[f]]>> \o @])

createSavingsGoal(state, goalData, id, t) ==
  LET goal == [name |-> goalData.name, targetAmount |-> goalData.targetAmount,
               targetDate |-> goalData.targetDate, isActive |-> goalData.isActive,
               id |-> id, currentAmount |-> FZero, createdAt |-> t]
  IN  Sets([state EXCEPT !.savingsGoals = Append(@, goal)])

\* { ...goal, ...updates }
Spread(goal, updates) ==
  [f \in DOMAIN goal \cup DOMAIN updates |->
     IF f \in DOMAIN updates THEN updates[f] ELSE goal[f]]

updateSavingsGoal(state, goalId, updates) ==
  Sets([state EXCEPT !.savingsGoals =
          [i \in DOMAIN state.savingsGoals |->
             LET goal == state.savingsGoals[i]
             IN  IF goal.id = goalId THEN Spread(goal, updates) ELSE goal]])

addToSavingsGoal(state, goalId, amount) ==
  Sets([state EXCEPT
          !.savingsGoals =
             [i \in DOMAIN state.savingsGoals |->
                LET goal == state.savingsGoals[i]
                IN  IF goal.id = goalId
                      THEN [goal EXCEPT !.currentAmount = FAdd(goal.currentAmount, amount)]
                      ELSE goal],
          !.currentSavings = FAdd(state.currentSavings, amount)])

---------------------------------------------------------------------------
(* services/storage.ts *)

\* An optional value is << >> when it is undefined or null and <<v>> when it
\* is v.  A reward is a record of strings, "undefined" standing for a field
\* that is undefined.  What AsyncStorage holds under a key is the JSON text
\* of an item, modelled as the value JSON.parse makes of it.

\* JSON.stringify of a reward, read back: the fields that are undefined are
\* left out.
JSONReward(reward) ==
  [f \in {g \in DOMAIN reward : reward[g] # "undefined"} |-> reward[f]]

\* JSON.stringify(item), read back: a history keeps its order, and an item
\* without expiry has no expiresAt field.
JSONItem(item) ==
  LET value == [i \in DOMAIN item.value |-> JSONReward(item.value[i])]
  IN  IF item.expiresAt = << >>
        THEN [value |-> value, timestamp |-> item.timestamp]
        ELSE [value |-> value, timestamp |-> item.timestamp,
              expiresAt |-> item.expiresAt[1]]

\* The item setItem builds at clock t; a minute is 60 seconds.
StorageItem(value, expirationMinutes, t) ==
  [value     |-> value,
   timestamp |-> t,
   expiresAt |-> IF expirationMinutes # << >> /\ expirationMinutes[1] # 0
                   THEN <<t + expirationMinutes[1] * 60>> ELSE << >>]

\* What setItem hands to AsyncStorage.setItem.
setItem(value, expirationMinutes, t) ==
  JSONItem(StorageItem(value, expirationMinutes, t))

\* The item read at clock t has expired.
Expired(stored, t) ==
  /\ stored # << >>
  /\ "expiresAt" \in DOMAIN stored[1]
  /\ stored[1].expiresAt # 0
  /\ t > stored[1].expiresAt

\* What getItem returns at clock t for what AsyncStorage.getItem gave.
getItem(stored, t) ==
  IF stored = << >> \/ Expired(stored, t) THEN << >> ELSE <<stored[1].value>>

\* return history || []
getRewardsHistory(stored, t) ==
  IF getItem(stored, t) = << >> THEN << >> ELSE getItem(stored, t)[1]

\* Keep only last 1000 rewards
REWARDS_KEPT == 1000

\* history.unshift(reward); if (history.length > 1000) history.splice(1000)
unshiftReward(history, reward) ==
  LET unshifted == <<reward>> \o history
  IN  IF Len(unshifted) > REWARDS_KEPT
        THEN SubSeq(unshifted, 1, REWARDS_KEPT) ELSE unshifted

---------------------------------------------------------------------------
(* The inputs the caller draws from *)

\* Screen times run from 0 to MaxScreenHalfHours half hours.
MaxScreenHalfHours == 20

\* Streaks run from 0 to MaxStreak days.
MaxStreak == 31

\* A week's history holds up to MaxDays days.
MaxDays == 7

\* A goal list holds up to MaxGoals goals.
MaxGoals == 2

\* The monthly budget runs from 0 to MaxBudgetSteps steps of BudgetStep tokens.
MaxBudgetSteps == 2

\* An investment with monthly contributions runs up to MaxMonths months,
\* one without up to MaxYears years; a long-term plan runs up to MaxYears
\* years.
MaxMonths == 2

MaxYears == 1

\* The wall clock advances up to MaxTicks times, half a day at a time.
MaxTicks == 1

\* A day's usage lists up to MaxApps apps.
MaxApps == 2

BudgetStep == 43

AmpleBudget == 5000

TickLength == DAY \div 2

\* Screen times in seconds: the half hours, and three readings off that
\* grid (a sixteenth of an hour, a sixteenth under 8 hours, a negative one).
ScreenTimes ==
  {N(h * (HOUR \div 2)) : h \in 0..MaxScreenHalfHours}
    \cup {N(HOUR \div 16), N(8 * HOUR - HOUR \div 16), N(-HOUR)}

\* Screen times in hours, as calculateScreenTimeToSavings takes them: the
\* half hours, and a quarter of an hour under the 8-hour goal.
ScreenHours == {Rat(h, 2) : h \in 0..MaxScreenHalfHours} \cup {Rat(31, 4)}

\* Screen times in hours, as generateScreenTimeScenarios takes them: the
\* same, and a negative one, one over 10 hours, NaN and Infinity.
ScenarioHours == ScreenHours \cup {N(-1), N(11), NaN, PosInf}

\* Daily goals in hours, as calculateScreenTimeToSavings takes them.
DailyGoals == {N(6), N(DAILY_SCREEN_TIME_GOAL_HOURS)}

GoalHours == {N(-2), N(0), N(6), N(DAILY_SCREEN_TIME_GOAL_HOURS)}

Streaks == {N(s) : s \in 0..MaxStreak}

\* The days of a week's history: well under, exactly at, and over the goal.
WeekDayTimes == {N(4 * HOUR), N(8 * HOUR), N(9 * HOUR)}

WeekHistories == UNION {[1..k -> WeekDayTimes] : k \in 0..MaxDays}

AppCategories == {"Productivity", "Education", "Social Media", "Games"}

\* Time spent in an app, in seconds: an hour and a half, the two hours of
\* the social-media allowance, three hours and a half.
AppTimes == {N(3 * (HOUR \div 2)), N(2 * HOUR), N(7 * (HOUR \div 2))}

AppUsages ==
  UNION {[1..k -> [packageName : {"app"}, timeSpent : AppTimes,
                   category : AppCategories]] : k \in 0..MaxApps}

\* A goal of 10 KES with currentAmount KES saved, due targetDays days after
\* time 0.
Goal(currentAmount, targetDays, isActive) ==
  [id |-> "goal", name |-> "Goal", targetAmount |-> N(10),
   currentAmount |-> N(currentAmount), targetDate |-> N(targetDays * DAY),
   isActive |-> isActive, createdAt |-> N(0)]

\* Goals on and around the limits of the priority rule (30 and 90 days
\* remaining, 80% saved), an overdue goal with nothing saved, an overdue goal
\* saved beyond its target, and an inactive goal.
GoalCatalog ==
  {Goal(0, -5, TRUE), Goal(20, -5, TRUE), Goal(7, 30, TRUE), Goal(8, 90, TRUE),
   Goal(9, 120, TRUE), Goal(0, 30, FALSE)}

\* The goal at place i of a list carries "g<i>" as its id.
GoalId(i) == <<"g1", "g2", "g3", "g4">>[i]

\* The lists of up to MaxGoals goals of the catalog, no goal twice.
GoalLists ==
  UNION {{[i \in 1..k |-> [f[i] EXCEPT !.id = GoalId(i)]]
            : f \in {g \in [1..k -> GoalCatalog] :
                       \A i, j \in 1..k : g[i] = g[j] => i = j}}
           : k \in 0..MaxGoals}

\* Budgets that fall short of an overdue goal's need, and one that covers
\* every goal of the catalog.
MonthlyTokens == {N(b * BudgetStep) : b \in 0..MaxBudgetSteps} \cup {N(AmpleBudget)}

TimeHorizons ==
  {30 * m : m \in 0..MaxMonths} \cup {365 * y : y \in 0..MaxYears}

\* The exponent of calculateInvestmentProjection's power is a whole number,
\* or its base is 1 (see Pow).
ExactProjection(annualRate, timeHorizonDays, monthlyContribution) ==
  \/ annualRate = 0
  \/ monthlyContribution > 0 /\ timeHorizonDays % 30 = 0
  \/ monthlyContribution <= 0 /\ timeHorizonDays % 365 = 0

\* The wallet's user performs up to MaxOps operations.
MaxOps == 3

\* Token amounts: whole numbers of tokens.
TokenAmounts == {FOfInt(50), FOfInt(100)}

FundName == "CIC Money Market Fund"

\* An id that no investment and no goal has.
NoSuchId == 0

\* The value and the return rate an investment is updated to: 12 KES, 8.5%.
UpdatedValue == FOfInt(12)

UpdatedRate == Double(Rat(17, 2))

\* The updates of a savings goal: closing it, and setting what it holds.
GoalUpdates == <<[isActive |-> FALSE], [currentAmount |-> FOfInt(5)]>>

\* Amounts put into a savings goal, in KES.
SavedAmounts == {FOfInt(100)}

\* Up to MaxCalls calls of addReward are made.
MaxCalls == 2

\* The rewards added to the history.
Rewards ==
  {[id |-> "r1", description |-> "undefined"],
   [id |-> "r2", description |-> "Streak bonus"]}

---------------------------------------------------------------------------
(* The caller *)

VARIABLES
  now,          \* the wall clock, as Date.now() reads it
  call,         \* the call the caller made last: [fn, args], or NoCall
  ret,          \* << >> while that call runs, then <<r>> with r the value returned
  prev,         \* << >>, or <<r>> with r what the same call returned the time before
  wallet,       \* the state of the wallet store
  thrown,       \* the error the last wallet operation threw, or "none"
  performed,    \* the wallet operations called so far: [name, args], in order
  asyncStorage, \* what AsyncStorage holds under '@foom_rewards_history'
  calls         \* the addReward calls: where each stands and what it holds

vars == <<now, call, ret, prev, wallet, thrown, performed, asyncStorage, calls>>

walletVars == <<wallet, thrown, performed>>

storageVars == <<asyncStorage, calls>>

NoCall == [fn |-> "none", args |-> << >>]

\* The value the function c.fn returns for the arguments c.args when the
\* clock reads t.
Apply(c, t) ==
  CASE c.fn = "calculateDailyReward" ->
         calculateDailyReward(c.args[1], c.args[2], c.args[3])
    [] c.fn = "calculateWeeklyPerformance" ->
         calculateWeeklyPerformance(c.args[1])
    [] c.fn = "calculateSavingsProjection" ->
         calculateSavingsProjection(c.args[1], c.args[2], c.args[3], c.args[4], t)
    [] c.fn = "calculateInvestmentProjection" ->
         calculateInvestmentProjection(c.args[1], c.args[2], c.args[3], c.args[4])
    [] c.fn = "calculateScreenTimeToSavings" ->
         calculateScreenTimeToSavings(c.args[1], c.args[2], c.args[3])
    [] c.fn = "generateScreenTimeScenarios" ->
         generateScreenTimeScenarios(c.args[1])
    [] c.fn = "calculateLongTermSavings" ->
         calculateLongTermSavings(c.args[1], c.args[2], c.args[3])
    [] c.fn = "calculateOptimalAllocation" ->
         calculateOptimalAllocation(c.args[1], c.args[2], t)
    [] c.fn = "calculateAppSpecificRewards" ->
         calculateAppSpecificRewards(c.args[1])

\* The caller starts the call fn(args).
Invoke(fn, args) ==
  /\ call' = [fn |-> fn, args |-> args]
  /\ ret' = << >>
  /\ prev' = << >>
  /\ UNCHANGED <<now, walletVars, storageVars>>

\* A call of addReward that has not been made.
NotCalled == [pc |-> "idle", reward |-> << >>, item |-> << >>]

Init ==
  /\ now = 0
  /\ call = NoCall
  /\ ret = << >>
  /\ prev = << >>
  /\ wallet = InitialWallet
  /\ thrown = "none"
  /\ performed = << >>
  /\ asyncStorage = << >>
  /\ calls = [c \in 1..MaxCalls |-> NotCalled]

CallDailyReward ==
  /\ call = NoCall
  /\ \E screenTimeMs \in ScreenTimes, goalHours \in GoalHours, currentStreak \in Streaks :
       Invoke("calculateDailyReward", <<screenTimeMs, goalHours, currentStreak>>)

CallWeeklyPerformance ==
  /\ call = NoCall
  /\ \E dailyScreenTimes \in WeekHistories :
       Invoke("calculateWeeklyPerformance", <<dailyScreenTimes>>)

CallSavingsProjection ==
  /\ call = NoCall
  /\ \E currentSavings \in {0, 500}, goalAmount \in {400, 1000, 400000},
        targetDate \in {-DAY, 0, TickLength, 30 * DAY, 30 * DAY + HOUR}, averageDailyTokens \in {20, 40} :
       Invoke("calculateSavingsProjection",
              <<N(currentSavings), N(goalAmount), N(targetDate), N(averageDailyTokens)>>)

CallInvestmentProjection ==
  /\ call = NoCall
  /\ \E principal \in {0, 1000}, annualRate \in {0, 10, 120},
        timeHorizonDays \in TimeHorizons, monthlyContribution \in {0, 100} :
       /\ ExactProjection(annualRate, timeHorizonDays, monthlyContribution)
       /\ Invoke("calculateInvestmentProjection",
                 <<N(principal), N(annualRate), N(timeHorizonDays), N(monthlyContribution)>>)

CallScreenTimeToSavings ==
  /\ call = NoCall
  /\ \E currentScreenTimeHours \in ScreenHours, targetScreenTimeHours \in ScreenHours,
        dailyGoalHours \in DailyGoals :
       Invoke("calculateScreenTimeToSavings",
              <<currentScreenTimeHours, targetScreenTimeHours, dailyGoalHours>>)

CallScreenTimeScenarios ==
  /\ call = NoCall
  /\ \E currentScreenTimeHours \in ScenarioHours :
       Invoke("generateScreenTimeScenarios", <<currentScreenTimeHours>>)

CallLongTermSavings ==
  /\ call = NoCall
  /\ \E monthlyTokenContribution \in {0, 100, 250}, years \in 0..MaxYears,
        averageMMFRate \in {0, 1200} :
       Invoke("calculateLongTermSavings",
              <<N(monthlyTokenContribution), N(years), N(averageMMFRate)>>)

CallOptimalAllocation ==
  /\ call = NoCall
  /\ \E monthlyTokens \in MonthlyTokens, savingsGoals \in GoalLists :
       Invoke("calculateOptimalAllocation", <<monthlyTokens, savingsGoals>>)

CallAppSpecificRewards ==
  /\ call = NoCall
  /\ \E appUsage \in AppUsages :
       Invoke("calculateAppSpecificRewards", <<appUsage>>)

\* The function called runs to completion (the engines are synchronous) and
\* returns; what it reads of the clock, it reads now.
Run ==
  /\ call # NoCall
  /\ ret = << >>
  /\ ret' = <<Apply(call, N(now))>>
  /\ UNCHANGED <<now, call, prev, walletVars, storageVars>>

\* The caller makes the call it made last once more, with the same arguments.
CallAgain ==
  /\ call # NoCall
  /\ ret # << >>
  /\ prev = << >>
  /\ prev' = ret
  /\ ret' = << >>
  /\ UNCHANGED <<now, call, walletVars, storageVars>>

\* The caller drops the result and is ready for another call.
Return ==
  /\ call # NoCall
  /\ ret # << >>
  /\ call' = NoCall
  /\ ret' = << >>
  /\ prev' = << >>
  /\ UNCHANGED <<now, walletVars, storageVars>>

\* Time passes.
Tick ==
  /\ now < MaxTicks * TickLength
  /\ now' = now + TickLength
  /\ UNCHANGED <<call, ret, prev, walletVars, storageVars>>

Next ==
  \/ CallDailyReward
  \/ CallWeeklyPerformance
  \/ CallSavingsProjection
  \/ CallInvestmentProjection
  \/ CallScreenTimeToSavings
  \/ CallScreenTimeScenarios
  \/ CallLongTermSavings
  \/ CallAppSpecificRewards
  \/ CallOptimalAllocation
  \/ Run
  \/ CallAgain
  \/ Return
  \/ Tick

Spec == Init /\ [][Next]_vars

---------------------------------------------------------------------------
(* The wallet's user *)

\* The id generateId() makes in the operation about to be performed, and, in
\* investTokens, the one before the id it makes next.
NewId == 2 * Len(performed) + 1

\* The user has operations left to perform.
CanPerform == Len(performed) < MaxOps

\* The user calls the operation `name` of the store with `args`; `outcome`
\* is what the operation sets and throws.
Perform(name, args, outcome) ==
  /\ wallet' = outcome.state
  /\ thrown' = outcome.error
  /\ performed' = Append(performed, [name |-> name, args |-> args])
  /\ UNCHANGED <<now, call, ret, prev, storageVars>>

InvestmentIds == {wallet.investments[i].id : i \in DOMAIN wallet.investments}

GoalIds == {wallet.savingsGoals[i].id : i \in DOMAIN wallet.savingsGoals}

AddTokens ==
  /\ CanPerform
  /\ \E amount \in TokenAmounts, screenTime \in {"undefined"} :
       Perform("addTokens", <<amount, screenTime>>,
               addTokens(wallet, amount, screenTime, NewId, now))

DeductTokens ==
  /\ CanPerform
  /\ \E amount \in TokenAmounts :
       Perform("deductTokens", <<amount, "Redeemed">>,
               deductTokens(wallet, amount, "Redeemed", NewId, now))

AddTransaction ==
  /\ CanPerform
  /\ LET transactionData == [type |-> "earned", amount |-> FOfInt(50),
                             description |-> "Adjustment", timestamp |-> now]
     IN  Perform("addTransaction", <<transactionData>>,
                 addTransaction(wallet, transactionData, NewId))

\* The Invest button of InvestScreen: kesAmount = tokensToKES(tokens).
InvestTokens ==
  /\ CanPerform
  /\ \E tokens \in TokenAmounts :
       Perform("investTokens", <<FundName, tokens, tokensToKES(tokens)>>,
               investTokens(wallet, FundName, tokens, tokensToKES(tokens), NewId, now))

UpdateInvestmentValue ==
  /\ CanPerform
  /\ \E investmentId \in InvestmentIds \cup {NoSuchId} :
       Perform("updateInvestmentValue", <<investmentId, UpdatedValue, UpdatedRate>>,
               updateInvestmentValue(wallet, investmentId, UpdatedValue, UpdatedRate))

WithdrawInvestment ==
  /\ CanPerform
  /\ \E investmentId \in InvestmentIds \cup {NoSuchId} :
       Perform("withdrawInvestment", <<investmentId>>,
               withdrawInvestment(wallet, investmentId, NewId, now))

CreateSavingsGoal ==
  /\ CanPerform
  /\ LET goalData == [name |-> "Goal", targetAmount |-> FOfInt(1000),
                      targetDate |-> now + 30 * DAY, isActive |-> TRUE]
     IN  Perform("createSavingsGoal", <<goalData>>,
                 createSavingsGoal(wallet, goalData, NewId, now))

UpdateSavingsGoal ==
  /\ CanPerform
  /\ \E goalId \in GoalIds \cup {NoSuchId}, u \in DOMAIN GoalUpdates :
       Perform("updateSavingsGoal", <<goalId, GoalUpdates[u]>>,
               updateSavingsGoal(wallet, goalId, GoalUpdates[u]))

AddToSavingsGoal ==
  /\ CanPerform
  /\ \E goalId \in GoalIds \cup {NoSuchId}, amount \in SavedAmounts :
       Perform("addToSavingsGoal", <<goalId, amount>>,
               addToSavingsGoal(wallet, goalId, amount))

WalletNext ==
  \/ AddTokens
  \/ DeductTokens
  \/ AddTransaction
  \/ InvestTokens
  \/ UpdateInvestmentValue
  \/ WithdrawInvestment
  \/ CreateSavingsGoal
  \/ UpdateSavingsGoal
  \/ AddToSavingsGoal
  \/ Tick

WalletSpec == Init /\ [][WalletNext]_vars

---------------------------------------------------------------------------
(* The callers of addReward *)

\* addReward(reward) is called: it calls getRewardsHistory, which calls
\* getItem, which awaits AsyncStorage.getItem.
AddReward(c) ==
  /\ calls[c].pc = "idle"
  /\ \A b \in 1..(c - 1) : calls[b].pc # "idle"
  /\ \E reward \in Rewards :
       calls' = [calls EXCEPT ![c] = [pc |-> "getItem", reward |-> <<reward>>,
                                      item |-> << >>]]
  /\ UNCHANGED <<now, call, ret, prev, walletVars, asyncStorage>>

\* AsyncStorage.getItem gives call c what is stored; the call parses it,
\* puts its reward in front, and hands the item to AsyncStorage.setItem,
\* which it awaits.  An expired item is removed.
GetItemResolves(c) ==
  /\ calls[c].pc = "getItem"
  /\ LET history == unshiftReward(getRewardsHistory(asyncStorage, now),
                                  calls[c].reward[1])
     IN  calls' = [calls EXCEPT ![c].pc = "setItem",
                                ![c].item = <<setItem(history, << >>, now)>>]
  /\ asyncStorage' = IF Expired(asyncStorage, now) THEN << >> ELSE asyncStorage
  /\ UNCHANGED <<now, call, ret, prev, walletVars>>

\* AsyncStorage.setItem stores the item of call c, and addReward returns.
SetItemResolves(c) ==
  /\ calls[c].pc = "setItem"
  /\ asyncStorage' = calls[c].item
  /\ calls' = [calls EXCEPT ![c].pc = "done"]
  /\ UNCHANGED <<now, call, ret, prev, walletVars>>

StorageNext ==
  \/ \E c \in 1..MaxCalls : AddReward(c)
  \/ \E c \in 1..MaxCalls : GetItemResolves(c)
  \/ \E c \in 1..MaxCalls : SetItemResolves(c)
  \/ Tick

StorageSpec == Init /\ [][StorageNext]_vars

---------------------------------------------------------------------------
(* Properties *)

\* The call of fn has returned.
Returned(fn) == call.fn = fn /\ ret # << >>

\* The value the last call returned, and its i-th argument.
Result == ret[1]

Arg(i) == call.args[i]

\* The sum of the tokens of the entries of a breakdown.
RECURSIVE SumTokens(_)
SumTokens(breakdown) ==
  IF breakdown = << >> THEN N(0)
  ELSE Add(Head(breakdown).tokens, SumTokens(Tail(breakdown)))

\* The tokens of the entries of a breakdown that have the given type.
EntryTokens(breakdown, type) ==
  {breakdown[i].tokens : i \in {j \in DOMAIN breakdown : breakdown[j].type = type}}

\* C1: whatever the budget and the goals, calculateOptimalAllocation returns
\* totalAllocated + remainingTokens = monthlyTokens.
C1_AllocationConservesTokens ==
  Returned("calculateOptimalAllocation") =>
    Add(Result.totalAllocated, Result.remainingTokens) = Arg(1)

\* C1's case: two goals or more, one active and overshot, one overdue, and
\* tokens handed out.
C1_Witness ==
  /\ Returned("calculateOptimalAllocation")
  /\ Len(Arg(2)) >= 2
  /\ \E i \in DOMAIN Arg(2) :
       Arg(2)[i].isActive /\ Gt(Arg(2)[i].currentAmount, Arg(2)[i].targetAmount)
  /\ \E i \in DOMAIN Arg(2) : Arg(2)[i].isActive /\ Lt(Arg(2)[i].targetDate, N(now))
  /\ Len(Result.allocation) >= 1
  /\ Gt(Arg(1), N(0))

\* C2: with monthlyTokens = 0, calculateOptimalAllocation returns an empty
\* allocation list and remainingTokens = 0, whatever the goals.
C2_ZeroBudgetAllocatesNothing ==
  (Returned("calculateOptimalAllocation") /\ Arg(1) = N(0)) =>
    (Result.allocation = << >> /\ Result.remainingTokens = N(0))

\* C3: the totalReward calculateDailyReward returns is the sum of the tokens
\* of the entries of its breakdown.
C3_TotalRewardIsBreakdownSum ==
  Returned("calculateDailyReward") =>
    Result.totalReward = SumTokens(Result.breakdown)

\* C3's case: base, streak and milestone entries all present.
C3_Witness ==
  /\ Returned("calculateDailyReward")
  /\ Len(Result.breakdown) = 3

\* C4: dailyGoalMet is true exactly when the screen time (whole seconds) is
\* at most goalHours (whole hours), equality included.
C4_GoalMetIffAtOrUnderGoal ==
  Returned("calculateDailyReward") =>
    (Result.dailyGoalMet <=> Arg(1).n <= Arg(2).n * HOUR)

\* C4's case: the screen time equals the goal, and the goal is met.
C4_Witness ==
  /\ Returned("calculateDailyReward")
  /\ Arg(1) = N(8 * HOUR)
  /\ Arg(2) = N(8)
  /\ Result.dailyGoalMet

\* The payout of the highest streak threshold met.
TierPayout(streak) ==
  IF streak < 2 THEN 0
  ELSE IF streak = 2 THEN 2
  ELSE IF streak <= 6 THEN 5
  ELSE IF streak <= 13 THEN 15
  ELSE IF streak <= 20 THEN 25
  ELSE IF streak <= 29 THEN 35
  ELSE 50

\* C5: the streak bonus is 0 when the goal is missed or the streak is under
\* 2, and else the payout of the highest threshold met; the breakdown has a
\* streak entry, carrying the bonus, exactly when the bonus is > 0.
C5_StreakBonusIsHighestTier ==
  Returned("calculateDailyReward") =>
    LET expected == IF Result.dailyGoalMet THEN TierPayout(Arg(3).n) ELSE 0
    IN  /\ Result.streakBonus = N(expected)
        /\ EntryTokens(Result.breakdown, "streak")
             = (IF expected > 0 THEN {N(expected)} ELSE {})

\* C5's case: a streak of 30 days and more on a day that meets the goal.
C5_Witness ==
  /\ Returned("calculateDailyReward")
  /\ Arg(3).n >= 30
  /\ Result.dailyGoalMet
  /\ EntryTokens(Result.breakdown, "streak") = {N(50)}

\* floor(max(0, goalHours - screenTime) * 10) for a screen time in whole
\* seconds and a goal in whole hours.
BaseReward(seconds, hours) ==
  IF hours * HOUR - seconds > 0
    THEN ((hours * HOUR - seconds) * TOKENS_PER_HOUR_SAVED) \div HOUR
    ELSE 0

C7_ZeroRateProjectionIsFinite ==
  (Returned("calculateInvestmentProjection") /\ Arg(2) = N(0) /\ Gt(Arg(4), N(0))) =>
    /\ IsFinite(Result.projectedValue)
    /\ IsFinite(Result.totalReturn)
    /\ Result.projectedValue
         = MathRound(Add(Arg(1), Mul(Arg(4), Div(Arg(3), N(30)))))

ProjectionFunctions ==
  {"calculateSavingsProjection", "calculateInvestmentProjection",
   "calculateScreenTimeToSavings", "calculateLongTermSavings",
   "calculateOptimalAllocation"}

\* C8: a projection function called twice with the same arguments returns
\* the same value both times, whatever the clock reads at each call.
C8_ProjectionsIgnoreTheClock ==
  (call.fn \in ProjectionFunctions /\ ret # << >> /\ prev # << >>) =>
    ret = prev

\* C9: calculateWeeklyPerformance on an empty history returns zeros and
\* 'needs_improvement'.
C9_EmptyWeekIsAllZero ==
  (Returned("calculateWeeklyPerformance") /\ Arg(1) = << >>) =>
    Result = [totalTokensEarned |-> N(0),
              averageScreenTime |-> N(0),
              goalsMetCount     |-> N(0),
              streakData        |-> [currentStreak |-> N(0), longestStreak |-> N(0),
                                     weeklyGoalsMet |-> N(0)],
              performance       |-> "needs_improvement"]

\* C9's case: the call on the empty history has returned.
C9_Witness ==
  /\ Returned("calculateWeeklyPerformance")
  /\ Arg(1) = << >>

\* Every day of the history is at or under the 8-hour goal.
EveryDayMeetsGoal(dailyScreenTimes) ==
  \A i \in DOMAIN dailyScreenTimes :
    dailyScreenTimes[i].n <= DAILY_SCREEN_TIME_GOAL_HOURS * HOUR

\* C10: on a non-empty history in which every day meets the 8-hour goal,
\* longestStreak, currentStreak and goalsMetCount all equal the number of
\* days, and performance is 'excellent'.
C10_PerfectWeekIsOneStreak ==
  (Returned("calculateWeeklyPerformance") /\ Arg(1) # << >>
     /\ EveryDayMeetsGoal(Arg(1))) =>
    /\ Result.streakData.longestStreak = N(Len(Arg(1)))
    /\ Result.streakData.currentStreak = N(Len(Arg(1)))
    /\ Result.goalsMetCount = N(Len(Arg(1)))
    /\ Result.performance = "excellent"

\* C10's case: seven days, every one meeting the goal, one of them exactly.
C10_Witness ==
  /\ Returned("calculateWeeklyPerformance")
  /\ Len(Arg(1)) = 7
  /\ EveryDayMeetsGoal(Arg(1))
  /\ \E i \in DOMAIN Arg(1) : Arg(1)[i] = N(8 * HOUR)

\* A number that is finite and not negative.
FiniteNonNegative(x) == IsFinite(x) /\ Geq(x, N(0))

\* The step in which the call of fn runs, reading the clock as it stands.
Runs(fn) == call.fn = fn /\ ret = << >> /\ ret' # << >>

\* C11: calculateSavingsProjection returns timeToGoal >= 1 whatever the
\* targetDate, exactly 1 when the targetDate is at or before the clock read
\* by the call, and dailyRequired, weeklyRequired and monthlyRequired that
\* are finite and not negative.
C11_SavingsHorizonIsAtLeastOneDay ==
  [][Runs("calculateSavingsProjection") =>
       /\ Geq(ret'[1].timeToGoal, N(1))
       /\ Leq(call.args[3], N(now)) => ret'[1].timeToGoal = N(1)
       /\ FiniteNonNegative(ret'[1].dailyRequired)
       /\ FiniteNonNegative(ret'[1].weeklyRequired)
       /\ FiniteNonNegative(ret'[1].monthlyRequired)]_vars

\* C11's case: a targetDate a day in the past, and an amount still to save.
C11_Witness ==
  /\ Returned("calculateSavingsProjection")
  /\ Arg(3) = N(-DAY)
  /\ Result.timeToGoal = N(1)
  /\ Gt(Result.dailyRequired, N(0))

\* The base reward calculateDailyReward pays for a screen time given in
\* hours.
BaseRewardAt(hours, goalHours) ==
  calculateDailyReward(Mul(hours, N(HOUR)), goalHours, N(0)).tokensEarned

\* C12: for every goal and every target <= current screen time,
\* calculateScreenTimeToSavings returns as dailyTokensPotential the base
\* reward of calculateDailyReward at the target less that at the current
\* screen time.
C12_PotentialIsBaseRewardDifference ==
  (Returned("calculateScreenTimeToSavings") /\ Leq(Arg(2), Arg(1))) =>
    Result.dailyTokensPotential
      = Sub(BaseRewardAt(Arg(2), Arg(3)), BaseRewardAt(Arg(1), Arg(3)))

\* The breakdown has an entry for the year `years` whose contributions,
\* value and returns are the totals returned (=== on numbers).
LastYearMatchesTotals(r, years) ==
  \E i \in DOMAIN r.breakdownByYear :
    /\ Eq(r.breakdownByYear[i].year, years)
    /\ Eq(r.breakdownByYear[i].value, r.projectedValue)
    /\ Eq(r.breakdownByYear[i].contributions, r.totalContributions)
    /\ Eq(r.breakdownByYear[i].returns, r.totalReturns)

C14_NegativeScreenTimeCountsAsZero ==
  (Returned("calculateDailyReward") /\ Lt(Arg(1), N(0)) /\ Gt(Arg(2), N(0))) =>
    LET atZero == calculateDailyReward(N(0), Arg(2), Arg(3))
    IN  /\ Result.hoursUnderGoal = atZero.hoursUnderGoal
        /\ Result.tokensEarned = atZero.tokensEarned
        /\ Result.totalReward = atZero.totalReward
        /\ Leq(Result.tokensEarned, Mul(Arg(2), N(TOKENS_PER_HOUR_SAVED)))

\* Day n of the history is at or under the 8-hour goal.
DayMeetsGoal(dailyScreenTimes, n) ==
  dailyScreenTimes[n].n <= DAILY_SCREEN_TIME_GOAL_HOURS * HOUR

\* The number of consecutive goal-met days immediately before day n.
RunBefore(dailyScreenTimes, n) ==
  CHOOSE k \in 0..(n - 1) :
    /\ \A i \in (n - k)..(n - 1) : DayMeetsGoal(dailyScreenTimes, i)
    /\ k < n - 1 => ~DayMeetsGoal(dailyScreenTimes, n - k - 1)

\* The reward of day n, given the run of goal-met days before it.
DayReward(dailyScreenTimes, n) ==
  calculateDailyReward(dailyScreenTimes[n], N(DAILY_SCREEN_TIME_GOAL_HOURS),
                       N(RunBefore(dailyScreenTimes, n)))

\* The sum of the rewards of days 1..k.
RECURSIVE SumDayRewards(_, _)
SumDayRewards(dailyScreenTimes, k) ==
  IF k = 0 THEN N(0)
  ELSE Add(SumDayRewards(dailyScreenTimes, k - 1),
           DayReward(dailyScreenTimes, k).totalReward)

\* C15: calculateWeeklyPerformance rewards day n as calculateDailyReward(day
\* n, 8, s) with s the number of consecutive goal-met days immediately
\* before day n, totalTokensEarned is the sum of these rewards, and the
\* first two days of a run of goal-met days carry no streak bonus.
C15_StreakFeedsForwardByOneDay ==
  Returned("calculateWeeklyPerformance") =>
    /\ Result.totalTokensEarned = SumDayRewards(Arg(1), Len(Arg(1)))
    /\ \A n \in DOMAIN Arg(1) :
         RunBefore(Arg(1), n) < 2 => DayReward(Arg(1), n).streakBonus = N(0)

\* C15's case: a missed day, and after it a run of goal-met days long enough
\* for its third day to carry a streak bonus.
C15_Witness ==
  /\ Returned("calculateWeeklyPerformance")
  /\ \E m, n \in DOMAIN Arg(1) :
       /\ m < n
       /\ ~DayMeetsGoal(Arg(1), m)
       /\ RunBefore(Arg(1), n) = 2
       /\ Gt(DayReward(Arg(1), n).streakBonus, N(0))

\* Day k, which takes the loop's locals from `before` to `after`, keeps
\* tempStreak <= longestStreak <= goalsMetCount <= k and does not lower
\* longestStreak; if it misses the goal it sets tempStreak to 0 and leaves
\* longestStreak as it was.
StreakStepOk(before, after, dailyScreenTimes, k) ==
  /\ Leq(after.tempStreak, after.longestStreak)
  /\ Leq(after.longestStreak, after.goalsMetCount)
  /\ Leq(after.goalsMetCount, N(k))
  /\ Geq(after.longestStreak, before.longestStreak)
  /\ ~DayMeetsGoal(dailyScreenTimes, k) =>
       /\ after.tempStreak = N(0)
       /\ after.longestStreak = before.longestStreak

\* The loop's locals after the first k days, and whether every day up to
\* day k kept StreakStepOk.
RECURSIVE StreakPass(_, _)
StreakPass(dailyScreenTimes, k) ==
  IF k = 0 THEN [locals |-> WeeklyStart, ok |-> TRUE]
  ELSE LET upto  == StreakPass(dailyScreenTimes, k - 1)
           after == WeeklyDay(upto.locals, dailyScreenTimes[k])
       IN  [locals |-> after,
            ok     |-> upto.ok /\ StreakStepOk(upto.locals, after, dailyScreenTimes, k)]

\* C16: at every step of calculateWeeklyPerformance's pass over the days and
\* in the streakData returned, currentStreak <= longestStreak <=
\* goalsMetCount <= number of days; a missed day sets the running streak to
\* 0 and leaves longestStreak unchanged, and longestStreak never decreases.
C16_LongestStreakBoundsCurrent ==
  Returned("calculateWeeklyPerformance") =>
    /\ StreakPass(Arg(1), Len(Arg(1))).ok
    /\ Leq(Result.streakData.currentStreak, Result.streakData.longestStreak)
    /\ Leq(Result.streakData.longestStreak, Result.goalsMetCount)
    /\ Leq(Result.goalsMetCount, N(Len(Arg(1))))

\* C16's case: a history that ends in a run shorter than an earlier one,
\* with a missed day between them.
C16_Witness ==
  /\ Returned("calculateWeeklyPerformance")
  /\ Gt(Result.streakData.currentStreak, N(0))
  /\ Lt(Result.streakData.currentStreak, Result.streakData.longestStreak)
  /\ Lt(Result.streakData.longestStreak, Result.goalsMetCount)
  /\ Lt(Result.goalsMetCount, N(Len(Arg(1))))


GoalOf(entry) ==
  CHOOSE g \in {call.args[2][i] : i \in DOMAIN call.args[2]} : g.id = entry.goalId

\* goal has fewer than days days left at clock t.
DaysRemainingBelow(goal, t, days) == goal.targetDate.n - t < days * DAY

\* The priority rule on exact quantities: 'high' iff fewer than 30 days
\* remain and less than 0.8 of the target is saved, otherwise 'medium' iff
\* fewer than 90 days remain or more than 0.8 is saved, otherwise 'low'.
ExpectedPriority(goal, t) ==
  LET completion == Div(goal.currentAmount, goal.targetAmount)
  IN  IF DaysRemainingBelow(goal, t, 30) /\ Lt(completion, Rat(8, 10)) THEN "high"
      ELSE IF DaysRemainingBelow(goal, t, 90) \/ Gt(completion, Rat(8, 10)) THEN "medium"
      ELSE "low"

\* C18: the allocation list calculateOptimalAllocation returns holds only
\* active goals, each with the priority the rule gives it at the clock the
\* call reads (overdue goals included), all 'high' before 'medium' before
\* 'low', and within a priority in ascending order of days remaining.
C18_AllocationListIsPrioritized ==
  [][Runs("calculateOptimalAllocation") =>
       LET list == ret'[1].allocation
       IN  /\ \A i \in DOMAIN list :
                 \E j \in DOMAIN call.args[2] :
                    call.args[2][j].id = list[i].goalId /\ call.args[2][j].isActive
           /\ \A i \in DOMAIN list :
                 list[i].priority = ExpectedPriority(GoalOf(list[i]), now)
           /\ \A i, j \in DOMAIN list :
                 i < j =>
                   \/ priorityOrder(list[i].priority) < priorityOrder(list[j].priority)
                   \/ /\ list[i].priority = list[j].priority
                      /\ Leq(GoalOf(list[i]).targetDate, GoalOf(list[j]).targetDate)]_vars

\* C18's case: two goals of one priority come back in the opposite order of
\* the list passed in, the overdue one first.
C18_Witness ==
  /\ Returned("calculateOptimalAllocation")
  /\ Len(Result.allocation) >= 2
  /\ Result.allocation[1].goalId = "g2"
  /\ Result.allocation[2].goalId = "g1"
  /\ Result.allocation[1].priority = Result.allocation[2].priority
  /\ Lt(GoalOf(Result.allocation[1]).targetDate, N(0))


\* The tokens a goal needs per month at clock t, on exact quantities:
\* (targetAmount - currentAmount) / max(1, days remaining) * 30 KES.
NeedTokens(goal, t) ==
  LET daysRemaining == Div(Sub(goal.targetDate, N(t)), N(DAY))
      perDay        == Div(Sub(goal.targetAmount, goal.currentAmount),
                           MathMax(N(1), daysRemaining))
  IN  Div(Mul(perDay, N(30)), KES_PER_TOKEN)

\* The goal served k-th gets half of its need in whole tokens when that
\* much of the budget is left at its turn, and all that is left otherwise.
HighShareOk(sorted, k, monthlyTokens, t) ==
  LET before    == AllocateLoop(sorted, k - 1, monthlyTokens)
      remaining == Sub(monthlyTokens, before.totalAllocatedTokens)
      got       == AllocateLoop(sorted, k, monthlyTokens).mapped[k].recommendedTokens
      half      == Mul(NeedTokens(sorted[k], t), Rat(1, 2))
  IN  IF Geq(remaining, half) THEN Geq(got, MathFloor(half)) ELSE got = remaining

\* C19: in calculateOptimalAllocation every 'high' goal receives at least
\* 50% of its monthly need in tokens when the budget left at its turn is at
\* least that much, and all that is left when it is less.
C19_HighGoalGetsHalfOrAllThatRemains ==
  [][(Runs("calculateOptimalAllocation") /\ call.args[2] # << >>) =>
       LET sorted == prioritizedGoals(call.args[2], N(now))
       IN  \A k \in DOMAIN sorted :
             sorted[k].priority = "high" => HighShareOk(sorted, k, call.args[1], now)]_vars


\* The hours of the first k entries of a usage list that are Social Media.
RECURSIVE SocialMediaHours(_, _)
SocialMediaHours(appUsage, k) ==
  IF k = 0 THEN N(0)
  ELSE Add(SocialMediaHours(appUsage, k - 1),
           IF appUsage[k].category = "Social Media"
             THEN Div(appUsage[k].timeSpent, N(HOUR)) ELSE N(0))

\* C20: for a usage list whose Social Media entries total H hours,
\* calculateAppSpecificRewards returns socialMediaPenalty = floor((H - 2) * 3)
\* when H > 2 and 0 otherwise, however the time is split across entries.
C20_SocialPenaltyIsOnDailyTotal ==
  Returned("calculateAppSpecificRewards") =>
    LET H == SocialMediaHours(Arg(1), Len(Arg(1)))
    IN  Result.socialMediaPenalty =
          IF Gt(H, N(2)) THEN MathFloor(Mul(Sub(H, N(2)), N(3))) ELSE N(0)

\* The milestone tier of a screen time in whole seconds against a positive
\* goal in whole hours: the time saved, goal - screen time, is at least half
\* of the goal, at least a quarter of it, or less.
MilestoneTier(seconds, hours) ==
  IF 2 * (hours * HOUR - seconds) >= hours * HOUR THEN 20
  ELSE IF 4 * (hours * HOUR - seconds) >= hours * HOUR THEN 10
  ELSE 0

\* C21: for a positive goal the milestone bonus is 20 when the screen time
\* is at least 50% under the goal, 10 when it is at least 25% and less than
\* 50% under it, and 0 otherwise, the boundaries belonging to the higher
\* tier; for every goal the breakdown has at most one milestone entry, which
\* carries 10 or 20.
C21_MilestoneBonusIsOneTier ==
  Returned("calculateDailyReward") =>
    LET milestone == EntryTokens(Result.breakdown, "milestone")
    IN  /\ milestone \in {{}, {N(10)}, {N(20)}}
        /\ Cardinality({i \in DOMAIN Result.breakdown :
                          Result.breakdown[i].type = "milestone"}) <= 1
        /\ Gt(Arg(2), N(0)) =>
             milestone = (IF MilestoneTier(Arg(1).n, Arg(2).n) > 0
                            THEN {N(MilestoneTier(Arg(1).n, Arg(2).n))} ELSE {})

\* C21's case: exactly 25% under the goal, which earns the lower tier.
C21_Witness ==
  /\ Returned("calculateDailyReward")
  /\ Arg(2) = N(8)
  /\ Arg(1) = N(6 * HOUR)
  /\ EntryTokens(Result.breakdown, "milestone") = {N(10)}

\* The scenario names in the order of the catalog.
ScenarioOrder ==
  <<"Modest Reduction", "Moderate Reduction", "Aggressive Reduction",
    "Meet Daily Goal">>

\* The place of a scenario name in the catalog.
CatalogIndex(name) == CHOOSE i \in DOMAIN ScenarioOrder : ScenarioOrder[i] = name

\* C22: every scenario returned by generateScreenTimeScenarios has
\* targetHours >= 1 and dailyTokens > 0, and the scenarios returned are in
\* the order of the catalog, each at most once.
C22_ScenariosEarnTokensInCatalogOrder ==
  Returned("generateScreenTimeScenarios") =>
    /\ \A i \in DOMAIN Result :
         /\ Result[i].scenario \in {ScenarioOrder[k] : k \in DOMAIN ScenarioOrder}
         /\ Geq(Result[i].targetHours, N(1))
         /\ Gt(Result[i].dailyTokens, N(0))
    /\ \A i, j \in DOMAIN Result :
         i < j => CatalogIndex(Result[i].scenario) < CatalogIndex(Result[j].scenario)

\* C22's case: a usage under 4 hours, for which the aggressive reduction is
\* held at the floor of 1 hour and the list has lost a scenario that earns
\* nothing.
C22_Witness ==
  /\ Returned("generateScreenTimeScenarios")
  /\ Lt(Sub(Arg(1), N(3)), N(1))
  /\ Len(Result) \in 2..3
  /\ Result[Len(Result)].scenario = "Aggressive Reduction"
  /\ Result[Len(Result)].targetHours = N(1)

\* The sum of recommendedTokens over the entries of an allocation list.
RECURSIVE SumRecommendedTokens(_)
SumRecommendedTokens(allocation) ==
  IF allocation = << >> THEN N(0)
  ELSE Add(Head(allocation).recommendedTokens,
           SumRecommendedTokens(Tail(allocation)))

\* C23: in every result of calculateOptimalAllocation, totalAllocated is the
\* sum of recommendedTokens over the allocation list returned, so that a goal
\* left out of the list adds nothing to totalAllocated.
C23_TotalAllocatedIsListedSum ==
  Returned("calculateOptimalAllocation") =>
    Result.totalAllocated = SumRecommendedTokens(Result.allocation)

\* C24: for every screenTime >= 0, every currentStreak and every goalHours,
\* zero and negative ones included, a calculateDailyReward result with
\* dailyGoalMet = false has totalReward = 0 and an empty breakdown.
C24_MissedDayEarnsNothing ==
  (Returned("calculateDailyReward") /\ Geq(Arg(1), N(0)) /\ ~Result.dailyGoalMet) =>
    /\ Result.totalReward = N(0)
    /\ Result.breakdown = << >>

\* C25: for a usage above the 8-hour goal, the list returned by
\* generateScreenTimeScenarios contains the 'Meet Daily Goal' entry, with
\* dailyTokens > 0.
C25_MeetDailyGoalIsOffered ==
  (Returned("generateScreenTimeScenarios") /\ IsFinite(Arg(1))
     /\ Gt(Arg(1), N(DAILY_SCREEN_TIME_GOAL_HOURS))) =>
    \E i \in DOMAIN Result :
      Result[i].scenario = "Meet Daily Goal" /\ Gt(Result[i].dailyTokens, N(0))

\* The wallet operation called last, and the one called in this step.
LastOp == performed[Len(performed)]

Performs(name) ==
  /\ Len(performed') = Len(performed) + 1
  /\ performed'[Len(performed')].name = name

NewOp == performed'[Len(performed')]

\* C26: when investTokens(mmf, T, tokensToKES(T)) has succeeded and the
\* next operation withdraws that investment, tokenBalance is back at its
\* value before the investment, the balance after it plus T.
C26_InvestThenWithdrawRestoresBalance ==
  [][(/\ performed # << >>
      /\ LastOp.name = "investTokens"
      /\ thrown = "none"
      /\ LastOp.args[3] = tokensToKES(LastOp.args[2])
      /\ Performs("withdrawInvestment")
      /\ NewOp.args[1] = wallet.investments[Len(wallet.investments)].id)
       => wallet'.tokenBalance = FAdd(wallet.tokenBalance, LastOp.args[2])]_vars

\* The sum of the amounts of a list of transactions.
RECURSIVE SumAmounts(_)
SumAmounts(transactions) ==
  IF transactions = << >> THEN FZero
  ELSE FAdd(SumAmounts(Tail(transactions)), Head(transactions).amount)

TokenOperations ==
  {"addTokens", "deductTokens", "investTokens", "withdrawInvestment"}

\* Only operations of the set `names` have been called so far.
OnlyPerformed(names) == \A i \in DOMAIN performed : performed[i].name \in names

\* This step leaves the balance and the transactions alone, or it puts in
\* front of the transactions one transaction whose amount is the change of
\* the balance.
BalanceChangeIsRecorded ==
  \/ /\ wallet'.tokenBalance = wallet.tokenBalance
     /\ wallet'.transactions = wallet.transactions
  \/ /\ Len(wallet'.transactions) = Len(wallet.transactions) + 1
     /\ Tail(wallet'.transactions) = wallet.transactions
     /\ Head(wallet'.transactions).amount
          = FSub(wallet'.tokenBalance, wallet.tokenBalance)
     /\ Head(wallet'.transactions).amount # FZero

\* C27: after any sequence of addTokens, deductTokens, investTokens and
\* withdrawInvestment from the initial wallet, tokenBalance is the sum of
\* the amounts of the transactions, and each of these operations records
\* the change it makes to the balance in one transaction of that amount.
C27_BalanceIsSumOfTransactions ==
  /\ [](OnlyPerformed(TokenOperations) =>
          wallet.tokenBalance = SumAmounts(wallet.transactions))
  /\ [][(\E name \in TokenOperations : Performs(name))
          => BalanceChangeIsRecorded]_vars

\* C27's case: tokens earned, invested and withdrawn again, three
\* transactions that leave a balance other than what was earned.
C27_Witness ==
  /\ OnlyPerformed(TokenOperations)
  /\ Len(performed) = 3
  /\ LastOp.name = "withdrawInvestment"
  /\ Len(wallet.transactions) = 3
  /\ wallet.investments = << >>
  /\ wallet.tokenBalance # wallet.totalEarned

\* C28: deductTokens and investTokens called with more tokens than the
\* balance throw 'Insufficient token balance' and leave the wallet state as
\* it was; and with amounts that are not negative, tokenBalance is never
\* negative, whatever operations are performed.
C28_OverdrawThrowsAndChangesNothing ==
  /\ [](~FLt(wallet.tokenBalance, FZero))
  /\ [][(/\ (Performs("deductTokens") \/ Performs("investTokens"))
          /\ FLt(wallet.tokenBalance,
                 IF NewOp.name = "deductTokens" THEN NewOp.args[1] ELSE NewOp.args[2]))
          => /\ thrown' = "Insufficient token balance"
             /\ wallet' = wallet]_vars

\* C28's case: a wallet that holds tokens and transactions, and an
\* investment of more tokens than it holds, which was refused.
C28_Witness ==
  /\ performed # << >>
  /\ LastOp.name = "investTokens"
  /\ thrown = "Insufficient token balance"
  /\ FLt(FZero, wallet.tokenBalance)
  /\ FLt(wallet.tokenBalance, LastOp.args[2])
  /\ wallet.transactions # << >>

\* The sum of currentAmount over a list of savings goals.
RECURSIVE SumCurrentAmount(_)
SumCurrentAmount(savingsGoals) ==
  IF savingsGoals = << >> THEN FZero
  ELSE FAdd(SumCurrentAmount(Tail(savingsGoals)), Head(savingsGoals).currentAmount)

\* C29: after any sequence of createSavingsGoal and addToSavingsGoal,
\* whatever the goalId, currentSavings is the sum of currentAmount over the
\* savings goals.
C29_CurrentSavingsIsSumOfGoals ==
  OnlyPerformed({"createSavingsGoal", "addToSavingsGoal"}) =>
    wallet.currentSavings = SumCurrentAmount(wallet.savingsGoals)

\* The rewards history stored, newest first.
StoredHistory == IF asyncStorage = << >> THEN << >> ELSE asyncStorage[1].value

\* C30: once every call of addReward that was made has returned, the stored
\* history holds one entry for each call, and the reward of each call is
\* among them.
C30_NoRewardIsLost ==
  (\A c \in DOMAIN calls : calls[c].pc \in {"idle", "done"}) =>
    /\ Len(StoredHistory) = Cardinality({c \in DOMAIN calls : calls[c].pc = "done"})
    /\ \A c \in DOMAIN calls :
         calls[c].pc = "done" =>
           \E i \in DOMAIN StoredHistory :
             StoredHistory[i].id = calls[c].reward[1].id

=============================================================================
